---- MODULE Spec2Model ----
(***************************************************************************)
(* Elementary cellular automaton engine (class CAEngine of ca-engine.js),  *)
(* the worker host that wraps a copy of it (ca-worker.js), the client of   *)
(* that host (class CAWorkerManager), and the rule field of the control    *)
(* panel (class ControlManager).                                           *)
(*                                                                         *)
(* A Uint8Array is a sequence of bytes; the JavaScript index i is the      *)
(* sequence index i+1.  An engine object is a record of its fields.        *)
(***************************************************************************)
EXTENDS Integers, Sequences, FiniteSets, TLC

\* eng:    a CAEngine its caller drives directly
\* twin:   a second CAEngine, constructed apart from eng and given the same
\*         calls, when there is one, and the use made of it before it was
\*         given its initial row
\* snap:   what a clone() of eng returned, when one was taken: the object,
\*         the buffer its state is a view of, and the engine as it was
\* panel:  the control panel: the fields of a ControlManager, the text of
\*         its rule field, the clock, and the invocations of onRuleChange
\* last:   the call that produced the current state: its name and arguments
\* worker: the worker context: its global engine, and the responses it
\*         posted while it handled the last message it received
\* rows:   the rows the engine has produced since it was last seeded, the
\*         seed first
\* mgr:    the fields of a CAWorkerManager
\* hosts:  the Worker objects the manager has created, in order of creation:
\*         the engine of each, the messages it has not yet handled, the
\*         responses not yet dispatched to the manager, and whether it runs
\* calls:  the calls made on the manager, in order, with their promises
\* timers: the timeouts set and not yet fired, oldest first
VARIABLES eng, twin, snap, panel, last, worker, rows, mgr, hosts, calls, timers

vars == <<eng, twin, snap, panel, last, worker, rows, mgr, hosts, calls, timers>>

(***************************************************************************)
(* Bounds of the exploration.                                              *)
(***************************************************************************)
MaxWidth == 3
MaxHeight == 2
MaxGen == 2

\* Arguments handed to the constructor, to setRule and to reset.
RuleArgs == {-5, 30, 90, 300}
\* Byte values an externally supplied Uint8Array pattern may hold.
ByteVals == {0, 1, 2, 255}

(***************************************************************************)
(* JavaScript arithmetic on the values the engine handles.                 *)
(***************************************************************************)
Undefined == <<>>
Some(v) == <<v>>

\* a % b of JavaScript: the result takes the sign of the dividend.
JsRem(a, b) == IF a >= 0 THEN a % b ELSE -((-a) % b)

\* n >> i on a 32-bit integer: the arithmetic shift, floor(n / 2^i).
ShiftRight(n, i) == n \div (2 ^ i)

\* n & 1
And1(n) == n % 2

\* a << i for small non-negative a
ShiftLeft(a, i) == a * (2 ^ i)

\* a | b for non-negative a, b
RECURSIVE BitOr(_, _)
BitOr(a, b) ==
  IF a = 0 THEN b
  ELSE IF b = 0 THEN a
  ELSE (IF (a % 2 = 1) \/ (b % 2 = 1) THEN 1 ELSE 0) + 2 * BitOr(a \div 2, b \div 2)

Min(a, b) == IF a < b THEN a ELSE b
Max(a, b) == IF a > b THEN a ELSE b

\* new Uint8Array(n): n zero bytes
Uint8Array(n) == [i \in 1..n |-> 0]

\* buffer[i] of a typed array: undefined outside the array
ReadAt(buffer, i) == IF i >= 0 /\ i < Len(buffer) THEN Some(buffer[i + 1]) ELSE Undefined

\* buffer[i] = v of a Uint8Array: undefined is stored as 0, a number modulo
\* 256, and a write outside the array is ignored
WriteAt(buffer, i, v) ==
  IF i >= 0 /\ i < Len(buffer)
  THEN [buffer EXCEPT ![i + 1] = IF v = Undefined THEN 0 ELSE v[1] % 256]
  ELSE buffer

(***************************************************************************)
(* class CAEngine                                                          *)
(***************************************************************************)
\* computeRule(left, center, right, rule): bit (left<<2)|(center<<1)|right of
\* the rule number
computeRule(left, center, right, rule) ==
  LET index == BitOr(BitOr(ShiftLeft(left, 2), ShiftLeft(center, 1)), right)
  IN  And1(ShiftRight(rule, index))

\* A table that holds the bits of the rule with the highest bit first.
buildRuleLookupMsbFirst(e) ==
  [e EXCEPT !.ruleLookup = [i \in 1..8 |-> And1(ShiftRight(e.rule, 8 - i))]]

buildRuleLookup(e) ==
  [e EXCEPT !.ruleLookup = [i \in 1..8 |-> And1(ShiftRight(e.rule, i - 1))]]

\* A lookup that stops at the edges of the row instead of wrapping.
getCellClamped(e, buffer, x) ==
  ReadAt(buffer, IF x < 0 THEN 0 ELSE IF x >= e.width THEN e.width - 1 ELSE x)

\* A lookup that wraps at the right edge of the row and finds a dead cell
\* beyond the left edge.
getCellWrapRight(e, buffer, x) ==
  IF x < 0 THEN Some(0) ELSE ReadAt(buffer, JsRem(x, e.width))

getCell(e, buffer, x) ==
  LET wrappedX == JsRem(JsRem(x, e.width) + e.width, e.width)
  IN  ReadAt(buffer, wrappedX)

\* One pass of the loop body of step() for column x: nextRow[x] is written.
stepCell(e, currentRow, nextRow, x) ==
  LET left == getCell(e, currentRow, x - 1)[1]
      center == getCell(e, currentRow, x)[1]
      right == getCell(e, currentRow, x + 1)[1]
      neighborhood == BitOr(BitOr(ShiftLeft(left, 2), ShiftLeft(center, 1)), right)
  IN  WriteAt(nextRow, x, ReadAt(e.ruleLookup, neighborhood))

RECURSIVE stepLoop(_, _, _, _)
stepLoop(e, currentRow, nextRow, x) ==
  IF x < e.width
  THEN stepLoop(e, currentRow, stepCell(e, currentRow, nextRow, x), x + 1)
  ELSE nextRow

\* A copy of a row into the buffer that zeroes every other cell of it.
copyRowIntoCleared(buffer, offset, row, width) ==
  [k \in 1..Len(buffer) |->
     IF k - 1 >= offset /\ k - 1 < offset + width THEN row[k - offset] ELSE 0]

\* buffer[offset + i] = row[i] for i in [0, width)
copyRowInto(buffer, offset, row, width) ==
  [k \in 1..Len(buffer) |->
     IF k - 1 >= offset /\ k - 1 < offset + width THEN row[k - offset] ELSE buffer[k]]

\* A step that writes the new row over the row it was computed from.
stepInPlace(e) ==
  LET currentRowOffset == (e.currentGeneration % e.height) * e.width
      currentRow == [i \in 1..e.width |-> e.state[currentRowOffset + i]]
      nextRow == [x \in 1..e.width |->
                    e.ruleLookup[4 * currentRow[IF x = 1 THEN e.width ELSE x - 1]
                                   + 2 * currentRow[x]
                                   + currentRow[IF x = e.width THEN 1 ELSE x + 1] + 1]]
  IN  [e EXCEPT !.currentRow = currentRow,
                !.nextRow = nextRow,
                !.currentGeneration = e.currentGeneration + 1,
                !.state = [k \in 1..Len(e.state) |->
                             IF k - 1 >= currentRowOffset /\ k - 1 < currentRowOffset + e.width
                             THEN nextRow[k - currentRowOffset] ELSE e.state[k]]]

step(e) ==
  LET currentRowIndex == e.currentGeneration % e.height
      currentRowOffset == currentRowIndex * e.width
      currentRow == [i \in 1..e.width |-> e.state[currentRowOffset + i]]
      nextRow == stepLoop(e, currentRow, e.nextRow, 0)
      generation == e.currentGeneration + 1
      nextRowIndex == generation % e.height
      nextRowOffset == nextRowIndex * e.width
  IN  [e EXCEPT !.currentRow = currentRow,
                !.nextRow = nextRow,
                !.currentGeneration = generation,
                !.state = copyRowInto(e.state, nextRowOffset, nextRow, e.width)]

getState(e) == e.state

getGeneration(e) == e.currentGeneration

getRow(e, rowIndex) ==
  LET offset == rowIndex * e.width
  IN  [i \in 1..e.width |-> e.state[offset + i]]

getRule(e) == e.rule

\* A seeding that writes row 0 without clearing the rest of the buffer.
setInitialConditionNoClear(e, pattern, rnd) ==
  LET blank == Uint8Array(e.width)
      centerX == e.width \div 2
      initialRow ==
        IF pattern.kind = "random"
          THEN [x \in 1..e.width |-> IF rnd[x] THEN 1 ELSE 0]
        ELSE IF pattern.kind = "Uint8Array"
          THEN [i \in 1..e.width |->
                  IF i <= Min(Len(pattern.data), e.width) THEN pattern.data[i] ELSE 0]
        ELSE WriteAt(blank, centerX, Some(1))
  IN  [e EXCEPT !.state = copyRowInto(e.state, 0, initialRow, e.width),
                !.currentGeneration = 0,
                !.currentRow = initialRow]

\* A seeding whose custom branch pads a short pattern with the cells row 0
\* held before instead of zeros.
setInitialConditionStalePad(e, pattern, rnd) ==
  LET cleared == Uint8Array(Len(e.state))
      blank == Uint8Array(e.width)
      centerX == e.width \div 2
      initialRow ==
        IF pattern.kind = "random"
          THEN [x \in 1..e.width |-> IF rnd[x] THEN 1 ELSE 0]
        ELSE IF pattern.kind = "Uint8Array"
          THEN [i \in 1..e.width |->
                  IF i <= Min(Len(pattern.data), e.width) THEN pattern.data[i]
                  ELSE e.state[i]]
        ELSE WriteAt(blank, centerX, Some(1))
  IN  [e EXCEPT !.state = copyRowInto(cleared, 0, initialRow, e.width),
                !.currentGeneration = 0,
                !.currentRow = initialRow]

\* A seeding whose fallback branch leaves row 0 empty for an unknown pattern.
setInitialConditionEmptyFallback(e, pattern, rnd) ==
  LET cleared == Uint8Array(Len(e.state))
      blank == Uint8Array(e.width)
      centerX == e.width \div 2
      initialRow ==
        IF pattern.kind = "single" THEN WriteAt(blank, centerX, Some(1))
        ELSE IF pattern.kind = "random"
          THEN [x \in 1..e.width |-> IF rnd[x] THEN 1 ELSE 0]
        ELSE IF pattern.kind = "Uint8Array"
          THEN [i \in 1..e.width |->
                  IF i <= Min(Len(pattern.data), e.width) THEN pattern.data[i] ELSE 0]
        ELSE blank
  IN  [e EXCEPT !.state = copyRowInto(cleared, 0, initialRow, e.width),
                !.currentGeneration = 0,
                !.currentRow = initialRow]

\* A reset that changes the rule and leaves the buffer and the counter.
resetRuleOnly(e, newRule) ==
  IF newRule # Undefined
  THEN [e EXCEPT !.rule = Max(0, Min(255, newRule[1])),
                 !.ruleLookup = [i \in 1..8 |->
                                   And1(ShiftRight(Max(0, Min(255, newRule[1])), i - 1))]]
  ELSE e

\* pattern is [kind |-> "single"], [kind |-> "random"], a Uint8Array
\* [kind |-> "Uint8Array", data |-> bytes] or any other value [kind |-> k];
\* rnd[x+1] is the outcome of Math.random() < density for column x.
setInitialCondition(e, pattern, rnd) ==
  LET cleared == Uint8Array(Len(e.state))
      blank == Uint8Array(e.width)
      centerX == e.width \div 2
      initialRow ==
        IF pattern.kind = "single" THEN WriteAt(blank, centerX, Some(1))
        ELSE IF pattern.kind = "random"
          THEN [x \in 1..e.width |-> IF rnd[x] THEN 1 ELSE 0]
        ELSE IF pattern.kind = "Uint8Array"
          THEN LET copyLength == Min(Len(pattern.data), e.width)
               IN  [i \in 1..e.width |-> IF i <= copyLength THEN pattern.data[i] ELSE 0]
        ELSE WriteAt(blank, centerX, Some(1))
  IN  [e EXCEPT !.state = copyRowInto(cleared, 0, initialRow, e.width),
                !.currentGeneration = 0,
                !.currentRow = initialRow]

\* A rule change that stores the argument as it comes.
setRuleUnclamped(e, rule) ==
  [e EXCEPT !.rule = rule,
            !.ruleLookup = [i \in 1..8 |-> And1(ShiftRight(rule, i - 1))]]

\* A rule change that also restarts the automaton from the single-cell seed.
setRuleAndReseed(e, rule) ==
  LET clamped == IF rule < 0 \/ rule > 255 THEN Max(0, Min(255, rule)) ELSE rule
      table == [i \in 1..8 |-> And1(ShiftRight(clamped, i - 1))]
  IN  [e EXCEPT !.rule = clamped,
                !.ruleLookup = table,
                !.currentGeneration = 0,
                !.state = copyRowInto(Uint8Array(Len(e.state)), 0,
                                      WriteAt(Uint8Array(e.width), e.width \div 2, Some(1)),
                                      e.width)]

\* A rule change that leaves the lookup table of the previous rule.
setRuleStaleTable(e, rule) ==
  [e EXCEPT !.rule = IF rule < 0 \/ rule > 255 THEN Max(0, Min(255, rule)) ELSE rule]

setRule(e, rule) ==
  LET clamped == IF rule < 0 \/ rule > 255 THEN Max(0, Min(255, rule)) ELSE rule
  IN  buildRuleLookup([e EXCEPT !.rule = clamped])

reset(e, newRule) ==
  LET ruled == IF newRule # Undefined THEN setRule(e, newRule[1]) ELSE e
  IN  setInitialCondition(ruled, [kind |-> "single"], <<>>)

\* A loop that runs once more than asked.
RECURSIVE generateLoopInclusive(_, _, _)
generateLoopInclusive(e, i, steps) ==
  IF i <= steps THEN generateLoopInclusive(step(e), i + 1, steps) ELSE e

RECURSIVE generateLoop(_, _, _)
generateLoop(e, i, steps) ==
  IF i < steps THEN generateLoop(step(e), i + 1, steps) ELSE e

generate(e, steps) == generateLoop(e, 0, steps)

\* clone(): the rule, the dimensions, the counter and a copy of the buffer.
clone(e) ==
  [rule |-> e.rule, width |-> e.width, height |-> e.height,
   currentGeneration |-> e.currentGeneration, state |-> e.state]

\* A restore that takes over rule, counter and buffer and leaves the lookup
\* table of the rule the engine had.
restoreStaleTable(e, clonedState) ==
  LET state == [i \in 1..Len(e.state) |->
                  IF i <= Len(clonedState.state) THEN clonedState.state[i] ELSE e.state[i]]
      currentRowOffset == (clonedState.currentGeneration % e.height) * e.width
  IN  [e EXCEPT !.rule = clonedState.rule,
                !.currentGeneration = clonedState.currentGeneration,
                !.state = state,
                !.currentRow = [i \in 1..e.width |-> state[currentRowOffset + i]]]

\* restore(clonedState): rule and counter are taken over, the table is
\* rebuilt, the snapshot's buffer is copied over the start of the engine's
\* buffer (a snapshot of the engine's own dimensions covers all of it), and
\* the current row is re-read.  this.state.set(source) throws a RangeError
\* when the source is longer than the buffer: restore ends there, with rule,
\* counter and table assigned and the buffer and the current row untouched;
\* thrown is the message of the error.
restore(e, clonedState) ==
  LET restored == buildRuleLookup([e EXCEPT !.rule = clonedState.rule,
                                            !.currentGeneration = clonedState.currentGeneration])
      state == [i \in 1..Len(e.state) |->
                  IF i <= Len(clonedState.state) THEN clonedState.state[i] ELSE e.state[i]]
      currentRowIndex == restored.currentGeneration % e.height
      currentRowOffset == currentRowIndex * e.width
  IN  IF Len(clonedState.state) > Len(e.state)
      THEN restored @@ [thrown |-> "RangeError: offset is out of bounds"]
      ELSE [restored EXCEPT !.state = state,
                            !.currentRow = [i \in 1..e.width |-> state[currentRowOffset + i]]]

\* new CAEngine(rule, width, height), for positive width and height
CAEngine(rule, width, height) ==
  LET fields == [rule |-> rule, width |-> width, height |-> height,
                 currentGeneration |-> 0,
                 state |-> Uint8Array(width * height),
                 currentRow |-> Uint8Array(width),
                 nextRow |-> Uint8Array(width),
                 ruleLookup |-> Uint8Array(8)]
  IN  setInitialCondition(buildRuleLookup(fields), [kind |-> "single"], <<>>)

(***************************************************************************)
(* ca-worker.js: the worker's own copy of class CAEngine                   *)
(***************************************************************************)
worker_buildRuleLookup(e) ==
  [e EXCEPT !.ruleLookup = [i \in 1..8 |-> And1(ShiftRight(e.rule, i - 1))]]

worker_getCell(e, buffer, x) ==
  LET wrappedX == JsRem(JsRem(x, e.width) + e.width, e.width)
  IN  ReadAt(buffer, wrappedX)

worker_stepCell(e, currentRow, nextRow, x) ==
  LET left == worker_getCell(e, currentRow, x - 1)[1]
      center == worker_getCell(e, currentRow, x)[1]
      right == worker_getCell(e, currentRow, x + 1)[1]
      neighborhood == BitOr(BitOr(ShiftLeft(left, 2), ShiftLeft(center, 1)), right)
  IN  WriteAt(nextRow, x, ReadAt(e.ruleLookup, neighborhood))

RECURSIVE worker_stepLoop(_, _, _, _)
worker_stepLoop(e, currentRow, nextRow, x) ==
  IF x < e.width
  THEN worker_stepLoop(e, currentRow, worker_stepCell(e, currentRow, nextRow, x), x + 1)
  ELSE nextRow

worker_step(e) ==
  LET currentRowIndex == e.currentGeneration % e.height
      currentRowOffset == currentRowIndex * e.width
      currentRow == [i \in 1..e.width |-> e.state[currentRowOffset + i]]
      nextRow == worker_stepLoop(e, currentRow, e.nextRow, 0)
      generation == e.currentGeneration + 1
      nextRowIndex == generation % e.height
      nextRowOffset == nextRowIndex * e.width
  IN  [e EXCEPT !.currentRow = currentRow,
                !.nextRow = nextRow,
                !.currentGeneration = generation,
                !.state = copyRowInto(e.state, nextRowOffset, nextRow, e.width)]

worker_getState(e) == e.state

worker_getGeneration(e) == e.currentGeneration

worker_setInitialCondition(e, pattern, rnd) ==
  LET cleared == Uint8Array(Len(e.state))
      blank == Uint8Array(e.width)
      centerX == e.width \div 2
      initialRow ==
        IF pattern.kind = "single" THEN WriteAt(blank, centerX, Some(1))
        ELSE IF pattern.kind = "random"
          THEN [x \in 1..e.width |-> IF rnd[x] THEN 1 ELSE 0]
        ELSE IF pattern.kind = "Uint8Array"
          THEN LET copyLength == Min(Len(pattern.data), e.width)
               IN  [i \in 1..e.width |-> IF i <= copyLength THEN pattern.data[i] ELSE 0]
        ELSE WriteAt(blank, centerX, Some(1))
  IN  [e EXCEPT !.state = copyRowInto(cleared, 0, initialRow, e.width),
                !.currentGeneration = 0,
                !.currentRow = initialRow]

\* A rule change of the worker's copy that stores the argument as it comes.
worker_setRuleUnclamped(e, rule) ==
  worker_buildRuleLookup([e EXCEPT !.rule = rule])

worker_setRule(e, rule) ==
  LET clamped == IF rule < 0 \/ rule > 255 THEN Max(0, Min(255, rule)) ELSE rule
  IN  worker_buildRuleLookup([e EXCEPT !.rule = clamped])

worker_reset(e, newRule) ==
  LET ruled == IF newRule # Undefined THEN worker_setRule(e, newRule[1]) ELSE e
  IN  worker_setInitialCondition(ruled, [kind |-> "single"], <<>>)

worker_getRule(e) == e.rule

RECURSIVE worker_generateLoop(_, _, _)
worker_generateLoop(e, i, steps) ==
  IF i < steps THEN worker_generateLoop(worker_step(e), i + 1, steps) ELSE e

worker_generate(e, steps) == worker_generateLoop(e, 0, steps)

\* new Uint8Array(n) throws a RangeError for a negative length: the
\* constructor throws at the buffer when width * height is negative and at
\* the row when width is negative; the result is the message of the error,
\* or Undefined when the constructor completes.
worker_CAEngineThrows(width, height) ==
  IF width * height < 0 THEN Some("Invalid typed array length: " \o ToString(width * height))
  ELSE IF width < 0 THEN Some("Invalid typed array length: " \o ToString(width))
  ELSE Undefined

\* new CAEngine(rule, width, height) in the worker, when it does not throw
worker_CAEngine(rule, width, height) ==
  LET fields == [rule |-> rule, width |-> width, height |-> height,
                 currentGeneration |-> 0,
                 state |-> Uint8Array(width * height),
                 currentRow |-> Uint8Array(width),
                 nextRow |-> Uint8Array(width),
                 ruleLookup |-> Uint8Array(8)]
  IN  worker_setInitialCondition(worker_buildRuleLookup(fields), [kind |-> "single"], <<>>)

(***************************************************************************)
(* ca-worker.js: message handling.  The worker's global engine is null,    *)
(* <<>>, or holds one engine, <<e>>.  A message is a record of its fields, *)
(* a field the sender left out being Undefined.  A handler gives the       *)
(* engine it leaves and the responses it posts; held is the engine it      *)
(* finds, and rnd the outcomes of Math.random() < density it would draw.   *)
(* A typed array is a view of a buffer: where the identity of the buffer   *)
(* matters it is the record of its buffer and its cells.  A response is    *)
(* kept as the receiver gets it, its state being the cells.                *)
(***************************************************************************)
sendError(message, id) == [type |-> "error", id |-> id, message |-> message]

\* The state response of an engine: its cells and its generation counter.
stateResponse(e, id) ==
  [type |-> "state", id |-> id,
   state |-> worker_getState(e), generation |-> worker_getGeneration(e)]

\* engine.getState(): the engine's own array, a view of its buffer
stateArray(e) == [buffer |-> "state", cells |-> worker_getState(e)]

\* The engine's own array handed on as it is: the same buffer.
Uint8ArrayShared(array) == array

\* new Uint8Array(typedArray): a new array on a new buffer, with the cells
\* of typedArray copied into it
Uint8ArrayFrom(array) == [buffer |-> "stateCopy", cells |-> array.cells]

\* self.postMessage(message, [buffer]): the buffer is moved to the receiver
\* and detached in the worker, where every array that is a view of it has
\* the length 0 from then on.
transfer(e, buffer) == IF buffer = "state" THEN [e EXCEPT !.state = <<>>] ELSE e

\* The tail of handleStep, handleSetInitialCondition, handleReset and
\* handleGetState: the state is copied, and the copy is posted with the
\* generation and its buffer transferred.
postState(e, id) ==
  LET state == stateArray(e)
      stateCopy == Uint8ArrayFrom(state)
  IN  [engine |-> Some(transfer(e, stateCopy.buffer)),
       posted |-> <<[type |-> "state", id |-> id,
                     state |-> stateCopy.cells, generation |-> worker_getGeneration(e)]>>]

NotInitialized(held, id) ==
  [engine |-> held, posted |-> <<sendError("Engine not initialized. Call init first.", id)>>]

\* A handleInit that answers ready before it constructs the engine.
handleInitReadyFirst(held, data, id) ==
  IF data.rule = Undefined \/ data.width = Undefined \/ data.height = Undefined
  THEN [engine |-> held,
        posted |-> <<sendError("Missing required parameters: rule, width, height", id)>>]
  ELSE IF worker_CAEngineThrows(data.width[1], data.height[1]) # Undefined
  THEN [engine |-> held, posted |-> <<[type |-> "ready", id |-> id, generation |-> 0]>>,
        thrown |-> worker_CAEngineThrows(data.width[1], data.height[1])[1]]
  ELSE LET created == worker_CAEngine(data.rule[1], data.width[1], data.height[1])
       IN  [engine |-> Some(created),
            posted |-> <<[type |-> "ready", id |-> id,
                          generation |-> worker_getGeneration(created)]>>]

\* handleInit leaves the listener by an exception when the constructor
\* throws: thrown is the message of the error, and engine is not assigned.
handleInit(held, data, id) ==
  IF data.rule = Undefined \/ data.width = Undefined \/ data.height = Undefined
  THEN [engine |-> held,
        posted |-> <<sendError("Missing required parameters: rule, width, height", id)>>]
  ELSE IF worker_CAEngineThrows(data.width[1], data.height[1]) # Undefined
  THEN [engine |-> held, posted |-> <<>>,
        thrown |-> worker_CAEngineThrows(data.width[1], data.height[1])[1]]
  ELSE LET created == worker_CAEngine(data.rule[1], data.width[1], data.height[1])
       IN  [engine |-> Some(created),
            posted |-> <<[type |-> "ready", id |-> id,
                          generation |-> worker_getGeneration(created)]>>]

\* A handleStep that copies the state before it computes the steps and
\* reads the generation after.
handleStepEarlyCopy(held, data, id) ==
  IF held = Undefined THEN NotInitialized(held, id)
  ELSE LET steps == IF data.steps = Undefined \/ data.steps = Some(0) THEN 1 ELSE data.steps[1]
           stepped == worker_generate(held[1], steps)
       IN  [engine |-> Some(stepped),
            posted |-> <<[type |-> "state", id |-> id, state |-> worker_getState(held[1]),
                          generation |-> worker_getGeneration(stepped)]>>]

handleStep(held, data, id) ==
  IF held = Undefined THEN NotInitialized(held, id)
  ELSE LET steps == IF data.steps = Undefined \/ data.steps = Some(0) THEN 1 ELSE data.steps[1]
           stepped == worker_generate(held[1], steps)
       IN  postState(stepped, id)

handleSetInitialCondition(held, data, id, rnd) ==
  IF held = Undefined THEN NotInitialized(held, id)
  ELSE LET pattern == IF data.pattern = Undefined THEN [kind |-> "undefined"]
                      ELSE data.pattern[1]
           seeded == worker_setInitialCondition(held[1], pattern, rnd)
       IN  postState(seeded, id)

handleSetRule(held, data, id) ==
  IF held = Undefined THEN NotInitialized(held, id)
  ELSE IF data.rule = Undefined
  THEN [engine |-> held, posted |-> <<sendError("Missing required parameter: rule", id)>>]
  ELSE LET ruled == worker_setRule(held[1], data.rule[1])
       IN  [engine |-> Some(ruled),
            posted |-> <<[type |-> "ruleChanged", id |-> id, rule |-> worker_getRule(ruled)]>>]

handleReset(held, data, id) ==
  IF held = Undefined THEN NotInitialized(held, id)
  ELSE LET fresh == worker_reset(held[1], data.newRule)
       IN  postState(fresh, id)

handleGetState(held, data, id) ==
  IF held = Undefined THEN NotInitialized(held, id)
  ELSE postState(held[1], id)

\* A default branch that answers and drops the engine.
unknownTypeResetting(held, type, id) ==
  [engine |-> Undefined, posted |-> <<sendError("Unknown message type: " \o type, id)>>]

\* The default branch of the dispatch: a type that is none of the six.
unknownType(held, type, id) ==
  [engine |-> held, posted |-> <<sendError("Unknown message type: " \o type, id)>>]

\* The worker's message listener: the dispatch, and the catch clause that
\* answers an exception of a handler with an error response.
onmessage(held, data, rnd) ==
  LET type == data.type
      id == data.id
      handled ==
        CASE type = "init" -> handleInit(held, data, id)
          [] type = "step" -> handleStep(held, data, id)
          [] type = "setInitialCondition" -> handleSetInitialCondition(held, data, id, rnd)
          [] type = "setRule" -> handleSetRule(held, data, id)
          [] type = "reset" -> handleReset(held, data, id)
          [] type = "getState" -> handleGetState(held, data, id)
          [] OTHER -> unknownType(held, type, id)
  IN  IF "thrown" \in DOMAIN handled
      THEN [engine |-> handled.engine,
            posted |-> Append(handled.posted, sendError("Worker error: " \o handled.thrown, id))]
      ELSE handled

(***************************************************************************)
(* class CAWorkerManager.  A promise is pending or settled with a value;   *)
(* the value undefined is Undefined.  The manager and what its methods act *)
(* on are handled together as one record w with the fields mgr, hosts,     *)
(* calls and timers.  The code that follows an await runs as a microtask   *)
(* of the task that settled the promise, before any other event is         *)
(* dispatched, and is part of the operation that settles the promise.      *)
(***************************************************************************)
NoPromise == [state |-> "none", value |-> Undefined]
Pending == [state |-> "pending", value |-> Undefined]
Fulfilled(value) == [state |-> "fulfilled", value |-> value]
\* new Error(message), as the reason of a rejection
Rejected(message) == [state |-> "rejected", value |-> Some([error |-> message])]

\* Map.set, Map.delete on a map kept as a function of its keys
MapSet(map, key, value) ==
  [k \in DOMAIN map \cup {key} |-> IF k = key THEN value ELSE map[k]]
MapDelete(map, key) == [k \in DOMAIN map \ {key} |-> map[k]]

\* constructor()
CAWorkerManager ==
  [worker |-> Undefined, messageHandlers |-> <<>>, nextMessageId |-> 0,
   currentGeneration |-> 0, isInitialized |-> FALSE]

\* new Worker('src/workers/ca-worker.js'): a context that is loading its
\* script, whose engine will be null; live until it is terminated
Worker ==
  [engine |-> Undefined, inbox |-> <<>>, outbox |-> <<>>, live |-> TRUE,
   script |-> "loading"]

\* A call of a method of the manager: the id _sendMessage gave it, the
\* promise _sendMessage returned, the promise the method returned, and how
\* often resolve or reject of the handler was invoked.
NewCall(op) ==
  [op |-> op, id |-> Undefined, sent |-> NoPromise, result |-> Pending, settles |-> 0]

\* The statements after `await this._sendMessage(...)` of the method that
\* made the call, run with the outcome of the awaited promise.
resume(w, call, outcome) ==
  LET op == w.calls[call].op
  IN  IF outcome.state = "rejected" THEN [w EXCEPT !.calls[call].result = outcome]
      ELSE IF op = "init"
        THEN [w EXCEPT !.mgr.isInitialized = TRUE,
                       !.calls[call].result = Fulfilled(Undefined)]
      ELSE IF op = "setRule" THEN [w EXCEPT !.calls[call].result = outcome]
      ELSE [w EXCEPT !.mgr.currentGeneration = outcome.value[1].generation,
                     !.calls[call].result = outcome]

\* resolve(value) or reject(error) of the handler of a call: a promise that
\* is settled already keeps its outcome.
settle(w, call, outcome) ==
  LET counted == [w EXCEPT !.calls[call].settles = @ + 1]
  IN  IF w.calls[call].sent.state # "pending" THEN counted
      ELSE resume([counted EXCEPT !.calls[call].sent = outcome], call, outcome)

\* A _sendMessage whose message overtakes the messages already queued.
sendMessageOvertaking(w, message, call) ==
  LET id == w.mgr.nextMessageId
      registered ==
        [w EXCEPT !.mgr.nextMessageId = id + 1,
                  !.mgr.messageHandlers = MapSet(@, id, call),
                  !.calls[call].id = Some(id),
                  !.calls[call].sent = Pending]
      data == message @@ [id |-> id]
  IN  IF w.mgr.worker = Undefined
      THEN resume([registered EXCEPT
                     !.calls[call].sent =
                        Rejected("Cannot read properties of null (reading 'postMessage')")],
                  call, Rejected("Cannot read properties of null (reading 'postMessage')"))
      ELSE [registered EXCEPT
              !.hosts[w.mgr.worker[1]].inbox = <<data>> \o @,
              !.timers = Append(@, [id |-> id, type |-> message.type, call |-> call])]

\* A _sendMessage that sets no timeout.
sendMessageNoTimeout(w, message, call) ==
  LET id == w.mgr.nextMessageId
      registered ==
        [w EXCEPT !.mgr.nextMessageId = id + 1,
                  !.mgr.messageHandlers = MapSet(@, id, call),
                  !.calls[call].id = Some(id),
                  !.calls[call].sent = Pending]
      data == message @@ [id |-> id]
  IN  IF w.mgr.worker = Undefined
      THEN resume([registered EXCEPT
                     !.calls[call].sent =
                        Rejected("Cannot read properties of null (reading 'postMessage')")],
                  call, Rejected("Cannot read properties of null (reading 'postMessage')"))
      ELSE [registered EXCEPT !.hosts[w.mgr.worker[1]].inbox = Append(@, data)]

\* _sendMessage(message), from the method invocation calls[call]
sendMessage(w, message, call) ==
  LET id == w.mgr.nextMessageId
      registered ==
        [w EXCEPT !.mgr.nextMessageId = id + 1,
                  !.mgr.messageHandlers = MapSet(@, id, call),
                  !.calls[call].id = Some(id),
                  !.calls[call].sent = Pending]
      data == message @@ [id |-> id]
  IN  IF w.mgr.worker = Undefined
      THEN \* this.worker.postMessage throws in the executor: the promise is
           \* rejected with the TypeError and no timeout is set
           resume([registered EXCEPT
                     !.calls[call].sent =
                        Rejected("Cannot read properties of null (reading 'postMessage')")],
                  call, Rejected("Cannot read properties of null (reading 'postMessage')"))
      ELSE [registered EXCEPT
              !.hosts[w.mgr.worker[1]].inbox = Append(@, data),
              !.timers = Append(@, [id |-> id, type |-> message.type, call |-> call])]

\* for (const [id, handler] of this.messageHandlers) handler.reject(error)
RECURSIVE rejectAll(_, _, _)
rejectAll(w, ids, message) ==
  IF ids = {} THEN w
  ELSE LET id == CHOOSE i \in ids : \A j \in ids : i <= j
       IN  rejectAll(settle(w, w.mgr.messageHandlers[id], Rejected(message)),
                     ids \ {id}, message)

\* A timeout callback that rejects every pending request.
onTimeoutAll(w, timer) ==
  IF timer.id \in DOMAIN w.mgr.messageHandlers
  THEN LET rejected == rejectAll(w, DOMAIN w.mgr.messageHandlers,
                                 "Worker timeout: No response for message type '"
                                   \o timer.type \o "'")
       IN  [rejected EXCEPT !.mgr.messageHandlers = <<>>]
  ELSE w

\* A timeout callback that rejects without looking whether the request is
\* still pending.
onTimeoutUnchecked(w, timer) ==
  settle([w EXCEPT !.mgr.messageHandlers = MapDelete(@, timer.id)], timer.call,
         Rejected("Worker timeout: No response for message type '"
                    \o timer.type \o "'"))

\* The callback of the timeout set by _sendMessage for id.
onTimeout(w, timer) ==
  IF timer.id \in DOMAIN w.mgr.messageHandlers
  THEN settle([w EXCEPT !.mgr.messageHandlers = MapDelete(@, timer.id)], timer.call,
              Rejected("Worker timeout: No response for message type '"
                         \o timer.type \o "'"))
  ELSE w

\* A message handler that gives the response to the newest pending request.
handleMessageNewest(w, data) ==
  IF data.id \notin DOMAIN w.mgr.messageHandlers THEN w
  ELSE LET id == CHOOSE i \in DOMAIN w.mgr.messageHandlers :
                   \A j \in DOMAIN w.mgr.messageHandlers : j <= i
           call == w.mgr.messageHandlers[id]
           removed == [w EXCEPT !.mgr.messageHandlers = MapDelete(@, id)]
       IN  IF data.type = "error"
           THEN settle(removed, call, Rejected(data.message))
           ELSE settle(removed, call, Fulfilled(Some(data)))

\* A message handler that takes a ready response of an unknown id as the
\* answer to an init.
handleMessageAdopting(w, data) ==
  IF data.id \notin DOMAIN w.mgr.messageHandlers
  THEN IF data.type = "ready" THEN [w EXCEPT !.mgr.isInitialized = TRUE] ELSE w
  ELSE LET call == w.mgr.messageHandlers[data.id]
           removed == [w EXCEPT !.mgr.messageHandlers = MapDelete(@, data.id)]
       IN  IF data.type = "error"
           THEN settle(removed, call, Rejected(data.message))
           ELSE settle(removed, call, Fulfilled(Some(data)))

\* _handleMessage(event), data being event.data
handleMessage(w, data) ==
  LET id == data.id
  IN  IF id \notin DOMAIN w.mgr.messageHandlers THEN w
      ELSE LET call == w.mgr.messageHandlers[id]
               removed == [w EXCEPT !.mgr.messageHandlers = MapDelete(@, id)]
           IN  IF data.type = "error"
               THEN settle(removed, call, Rejected(data.message))
               ELSE settle(removed, call, Fulfilled(Some(data)))

\* An error handler that rejects the pending requests and keeps their
\* entries.
handleErrorKeeping(w, message) ==
  LET text == IF message = Undefined \/ message[1] = "" THEN "Unknown error" ELSE message[1]
  IN  rejectAll(w, DOMAIN w.mgr.messageHandlers, "Worker error: " \o text)

\* _handleError(event), message being event.message: a message that is
\* missing or falsy (the empty string) is reported as 'Unknown error'
handleError(w, message) ==
  LET text == IF message = Undefined \/ message[1] = "" THEN "Unknown error" ELSE message[1]
      rejected == rejectAll(w, DOMAIN w.mgr.messageHandlers, "Worker error: " \o text)
  IN  [rejected EXCEPT !.mgr.messageHandlers = <<>>]

\* A terminate() that forgets the pending requests without rejecting them.
terminateForgetting(w) ==
  LET stopped ==
        IF w.mgr.worker # Undefined
        THEN [w EXCEPT !.hosts[w.mgr.worker[1]] =
                          [@ EXCEPT !.live = FALSE, !.inbox = <<>>, !.outbox = <<>>],
                       !.mgr.worker = Undefined]
        ELSE w
  IN  [stopped EXCEPT !.mgr.messageHandlers = <<>>, !.mgr.isInitialized = FALSE]

\* A terminate() that also starts the message ids again from 0.
terminateAndRenumber(w) ==
  LET stopped ==
        IF w.mgr.worker # Undefined
        THEN [w EXCEPT !.hosts[w.mgr.worker[1]] =
                          [@ EXCEPT !.live = FALSE, !.inbox = <<>>, !.outbox = <<>>],
                       !.mgr.worker = Undefined]
        ELSE w
      rejected == rejectAll(stopped, DOMAIN w.mgr.messageHandlers, "Worker terminated")
  IN  [rejected EXCEPT !.mgr.messageHandlers = <<>>,
                       !.mgr.isInitialized = FALSE,
                       !.mgr.nextMessageId = 0]

\* terminate(): worker.terminate() stops the worker at once and discards
\* the messages queued to it and from it.
terminate(w) ==
  LET stopped ==
        IF w.mgr.worker # Undefined
        THEN [w EXCEPT !.hosts[w.mgr.worker[1]] =
                          [@ EXCEPT !.live = FALSE, !.inbox = <<>>, !.outbox = <<>>],
                       !.mgr.worker = Undefined]
        ELSE w
      rejected == rejectAll(stopped, DOMAIN w.mgr.messageHandlers, "Worker terminated")
  IN  [rejected EXCEPT !.mgr.messageHandlers = <<>>, !.mgr.isInitialized = FALSE]

\* The method invocation is recorded as the next call.
Called(w, op) == [w EXCEPT !.calls = Append(@, NewCall(op))]

\* throw new Error('Worker not initialized. Call init() first.') of an
\* async method: the promise it returns is rejected.
notInitialized(w, op) ==
  LET call == Len(w.calls) + 1
  IN  [Called(w, op) EXCEPT
         !.calls[call].result = Rejected("Worker not initialized. Call init() first.")]

\* init(rule, width, height)
manager_init(w, rule, width, height) ==
  LET created == Append(w.hosts, Worker)
      started == [Called(w, "init") EXCEPT !.hosts = created,
                                           !.mgr.worker = Some(Len(created))]
  IN  sendMessage(started,
                  [type |-> "init", rule |-> Some(rule),
                   width |-> Some(width), height |-> Some(height)],
                  Len(started.calls))

\* A step(steps) without the check of isInitialized.
manager_stepUnguarded(w, steps) ==
  sendMessage(Called(w, "step"),
              [type |-> "step", steps |-> IF steps = Undefined THEN Some(1) ELSE steps],
              Len(w.calls) + 1)

\* step(steps = 1): steps is Undefined when the caller gives no argument
manager_step(w, steps) ==
  IF ~w.mgr.isInitialized THEN notInitialized(w, "step")
  ELSE sendMessage(Called(w, "step"),
                   [type |-> "step", steps |-> IF steps = Undefined THEN Some(1) ELSE steps],
                   Len(w.calls) + 1)

\* setInitialCondition(pattern, options = {})
manager_setInitialCondition(w, pattern) ==
  IF ~w.mgr.isInitialized THEN notInitialized(w, "setInitialCondition")
  ELSE sendMessage(Called(w, "setInitialCondition"),
                   [type |-> "setInitialCondition", pattern |-> Some(pattern)],
                   Len(w.calls) + 1)

\* setRule(rule)
manager_setRule(w, rule) ==
  IF ~w.mgr.isInitialized THEN notInitialized(w, "setRule")
  ELSE sendMessage(Called(w, "setRule"), [type |-> "setRule", rule |-> Some(rule)],
                   Len(w.calls) + 1)

\* reset(newRule): newRule is Undefined when the caller gives no argument
manager_reset(w, newRule) ==
  IF ~w.mgr.isInitialized THEN notInitialized(w, "reset")
  ELSE sendMessage(Called(w, "reset"), [type |-> "reset", newRule |-> newRule],
                   Len(w.calls) + 1)

\* getState()
manager_getState(w) ==
  IF ~w.mgr.isInitialized THEN notInitialized(w, "getState")
  ELSE sendMessage(Called(w, "getState"), [type |-> "getState"], Len(w.calls) + 1)

manager_getGeneration(m) == m.currentGeneration

isReady(m) == m.isInitialized

(***************************************************************************)
(* class ControlManager: the rule field of the control panel.  A text is   *)
(* the sequence of the code points of its characters.  The panel p is the  *)
(* record of the manager's fields state, callbacks and debounceTimers, the *)
(* clock now (milliseconds) and invoked, the invocations of                *)
(* callbacks.onRuleChange.  A timeout that is set is the record of what    *)
(* its callback will be given and of the time it is due; clearTimeout and  *)
(* the firing of a timeout remove it.                                      *)
(***************************************************************************)
\* A number of JavaScript where it may be NaN: the record of whether it is,
\* and of the integer it is if it is not.
NaN == [nan |-> TRUE, n |-> 0]
Number(n) == [nan |-> FALSE, n |-> n]

\* The code points of the characters the texts below are written with.
CharCode ==
  ("0" :> 48) @@ ("1" :> 49) @@ ("2" :> 50) @@ ("3" :> 51) @@ ("4" :> 52)
    @@ ("5" :> 53) @@ ("6" :> 54) @@ ("7" :> 55) @@ ("8" :> 56) @@ ("9" :> 57)
    @@ ("+" :> 43) @@ ("-" :> 45) @@ ("." :> 46)

\* The text written with the characters chars.
Text(chars) == [i \in DOMAIN chars |-> CharCode[chars[i]]]

\* The value of a decimal digit, '0' to '9'.
DigitValue == [c \in CharCode["0"]..CharCode["9"] |-> c - CharCode["0"]]

\* The number the digits at the head of text stand for, after the digits
\* read so far gave value; NaN if there is no digit at all.
RECURSIVE parseDigits(_, _, _)
parseDigits(text, value, seen) ==
  IF text # <<>> /\ Head(text) \in DOMAIN DigitValue
  THEN parseDigits(Tail(text), 10 * value + DigitValue[Head(text)], TRUE)
  ELSE IF seen THEN Number(value) ELSE NaN

\* The characters parseInt skips at the head of its text, the white space
\* and the line terminators of the language: the tabulation, the line feed,
\* the vertical tabulation, the form feed, the carriage return, the space,
\* the no-break space, the other space separators of Unicode (U+1680,
\* U+2000 to U+200A, U+202F, U+205F, U+3000), the line and the paragraph
\* separator (U+2028, U+2029) and the byte order mark (U+FEFF).
WhiteSpace ==
  {9, 10, 11, 12, 13, 32, 160, 5760} \cup (8192..8202)
    \cup {8232, 8233, 8239, 8287, 12288, 65279}

\* text without the white space at its head
RECURSIVE trimStart(_)
trimStart(text) ==
  IF text # <<>> /\ Head(text) \in WhiteSpace THEN trimStart(Tail(text)) ELSE text

\* parseInt(text, 10): leading white space is skipped, then an optional sign
\* '+' or '-', then the longest run of digits
parseInt(text) ==
  LET trimmed == trimStart(text)
  IN  IF trimmed # <<>> /\ Head(trimmed) = CharCode["-"]
      THEN LET value == parseDigits(Tail(trimmed), 0, FALSE)
           IN  IF value.nan THEN NaN ELSE Number(0 - value.n)
      ELSE IF trimmed # <<>> /\ Head(trimmed) = CharCode["+"]
        THEN parseDigits(Tail(trimmed), 0, FALSE)
      ELSE parseDigits(trimmed, 0, FALSE)

\* The decimal text of an integer, as the assignment of a number to the
\* value of a field writes it.
DigitChar == [d \in 0..9 |-> CharCode["0"] + d]

RECURSIVE toString(_)
toString(n) ==
  IF n < 0 THEN <<CharCode["-"]>> \o toString(0 - n)
  ELSE IF n < 10 THEN <<DigitChar[n]>>
  ELSE toString(n \div 10) \o <<DigitChar[n % 10]>>

\* !isNaN(value) && value >= 0 && value <= 255
validRule(value) == ~value.nan /\ value.n >= 0 /\ value.n <= 255

\* The delay given to _debounce for the rule input.
RuleDebounce == 500

\* constructor(): state.rule is 30, the panel is not paused, no function is
\* registered (callbacks.onRuleChange is null) and no timeout is set.  The
\* speed, the palette and the zoom are left out, and so are the callbacks
\* other than onRuleChange, whose functions act outside the panel.
ControlManager ==
  [state |-> [rule |-> 30, isPaused |-> FALSE],
   callbacks |-> [onRuleChange |-> Undefined],
   debounceTimers |-> <<>>]

\* if (this.callbacks.onRuleChange) this.callbacks.onRuleChange(value), by
\* the listener or callback named
onRuleChange(p, value, by) ==
  IF p.callbacks.onRuleChange # Undefined
  THEN [p EXCEPT !.invoked = Append(@, [value |-> value, by |-> by, edit |-> p.edit])]
  ELSE p

\* updateUI(): the rule field shows state.rule
updateUI(p) == [p EXCEPT !.text = toString(p.state.rule)]

\* setState(newState): the fields newState has replace those of state, and
\* the controls are redrawn
setState(p, newState) == updateUI([p EXCEPT !.state = newState @@ p.state])

\* The listener of the click event of the play/pause button: the pause flag
\* is flipped (the label of the button and the call of onPlayPause are not
\* part of the panel's record)
onPlayPauseClick(p) == [p EXCEPT !.state.isPaused = ~@]

\* setCallbacks(callbacks): the functions callbacks has replace those
\* registered
setCallbacks(p, callbacks) == [p EXCEPT !.callbacks = callbacks @@ p.callbacks]

\* _debounce(key, callback, delay), value being what the callback closes over
debounce(p, key, value, delay) ==
  LET cleared == MapDelete(p.debounceTimers, key)
  IN  [p EXCEPT !.debounceTimers =
                  MapSet(cleared, key, [value |-> value, due |-> p.now + delay, edit |-> p.edit])]

\* The callback the input listener gives to _debounce, run for timer.
ruleCallback(p, timer) ==
  LET set == [p EXCEPT !.state.rule = timer.value,
                       !.debounceTimers = MapDelete(@, "rule")]
      called == onRuleChange(set, timer.value, "debounce")
  IN  IF Len(called.invoked) > Len(set.invoked)
      THEN [called EXCEPT !.invoked[Len(set.invoked) + 1].edit = timer.edit]
      ELSE called

\* The listener of the input event of the rule field, text being
\* e.target.value
onRuleInput(p, text) ==
  LET value == parseInt(text)
  IN  IF validRule(value) THEN debounce(p, "rule", value.n, RuleDebounce) ELSE p

\* The listener of the change event of the rule field
onRuleFieldChange(p, text) ==
  LET value == parseInt(text)
  IN  IF validRule(value)
      THEN onRuleChange([p EXCEPT !.state.rule = value.n], value.n, "change")
      ELSE p

(***************************************************************************)
(* The engine driven directly by its caller.  last records the call that   *)
(* produced the current state: its name and its arguments.                 *)
(***************************************************************************)
\* No manager has been constructed beyond its initial fields.
NoManager ==
  /\ mgr = CAWorkerManager
  /\ hosts = <<>>
  /\ calls = <<>>
  /\ timers = <<>>

Widths == 1..MaxWidth
Heights == 1..MaxHeight
StepCounts == 0..MaxGen

RECURSIVE SeqsUpTo(_, _)
SeqsUpTo(S, n) ==
  IF n = 0 THEN {<<>>}
  ELSE LET shorter == SeqsUpTo(S, n - 1)
       IN  shorter \cup {Append(s, v) : s \in {t \in shorter : Len(t) = n - 1}, v \in S}

\* Externally supplied rows: every row of cells 0/1 up to one cell longer than
\* the widest engine, and every row of at most two arbitrary bytes.
CustomRows == SeqsUpTo({0, 1}, MaxWidth + 1) \cup SeqsUpTo(ByteVals, 2)

Patterns ==
  {[kind |-> "single"], [kind |-> "random"], [kind |-> "spiral"]}
    \cup {[kind |-> "Uint8Array", data |-> d] : d \in CustomRows}

Init ==
  \E rule \in RuleArgs, width \in Widths, height \in Heights :
    /\ eng = CAEngine(rule, width, height)
    /\ last = [op |-> "new", args |-> <<rule, width, height>>]
    /\ worker = [engine |-> Undefined, posted |-> <<>>]
    /\ NoManager
    /\ panel = <<>>
    /\ snap = <<>>
    /\ twin = <<>>
    /\ rows = <<>>

Step ==
  /\ eng.currentGeneration < MaxGen
  /\ eng' = step(eng)
  /\ last' = [op |-> "step", args |-> <<>>]
  /\ UNCHANGED <<snap, panel, twin, worker, rows, mgr, hosts, calls, timers>>

Generate ==
  \E steps \in StepCounts :
    /\ eng.currentGeneration + steps <= MaxGen
    /\ eng' = generate(eng, steps)
    /\ last' = [op |-> "generate", args |-> <<steps>>]
    /\ UNCHANGED <<snap, panel, twin, worker, rows, mgr, hosts, calls, timers>>

SetRule ==
  \E rule \in RuleArgs :
    /\ eng' = setRule(eng, rule)
    /\ last' = [op |-> "setRule", args |-> <<rule>>]
    /\ UNCHANGED <<snap, panel, twin, worker, rows, mgr, hosts, calls, timers>>

Reset ==
  \E newRule \in {Undefined} \cup {Some(r) : r \in RuleArgs} :
    /\ eng' = reset(eng, newRule)
    /\ last' = [op |-> "reset", args |-> <<newRule>>]
    /\ UNCHANGED <<snap, panel, twin, worker, rows, mgr, hosts, calls, timers>>

SetInitialCondition ==
  \E pattern \in Patterns :
    \E rnd \in IF pattern.kind = "random" THEN [1..eng.width -> BOOLEAN] ELSE {<<>>} :
      /\ eng' = setInitialCondition(eng, pattern, rnd)
      /\ last' = [op |-> "setInitialCondition", args |-> <<pattern>>]
      /\ UNCHANGED <<snap, panel, twin, worker, rows, mgr, hosts, calls, timers>>

\* getState(), getGeneration(), getRule() and getRow(r): reads that assign
\* no field of the engine.
Query ==
  /\ eng' = eng
  /\ last' = [op |-> "query",
              args |-> <<getGeneration(eng), getRule(eng), getState(eng), getRow(eng, 0)>>]
  /\ UNCHANGED <<snap, panel, twin, worker, rows, mgr, hosts, calls, timers>>

Next ==
  \/ Step
  \/ Generate
  \/ SetRule
  \/ Reset
  \/ SetInitialCondition
  \/ Query

Spec == Init /\ [][Next]_vars

(***************************************************************************)
(* Every rule number, on the bare engine and through the worker: each call *)
(* on the bare engine eng is also sent as a message to the worker, whose   *)
(* engine is built by an init message with the constructor's arguments.    *)
(* The engine is constructed with any rule of AllRuleArgs; one constructed *)
(* with a rule of RuleArgs is given any rule of AllRuleArgs by the call    *)
(* that follows, or is restored from a snapshot taken with a rule of       *)
(* RuleArgs; every engine is then seeded with explicit rows, stepped, and  *)
(* reset with or without a rule.                                           *)
(***************************************************************************)
AllRuleArgs == (-3..258) \cup {-5, 300}

\* The explicit rows of cells 0/1 of a given width.
BinaryRows(width) == [1..width -> {0, 1}]

\* both calls made: the direct result, and the worker's reaction to data
Mirrored(direct, data, op, args) ==
  /\ eng' = direct
  /\ worker' = onmessage(worker.engine, data, <<>>)
  /\ last' = [op |-> op, args |-> args]
  /\ UNCHANGED <<snap, panel, twin, rows, mgr, hosts, calls, timers>>

RuleInit ==
  \E rule \in AllRuleArgs, width \in Widths, height \in Heights :
    /\ eng = CAEngine(rule, width, height)
    /\ worker = onmessage(Undefined,
                          [type |-> "init", id |-> 0, rule |-> Some(rule),
                           width |-> Some(width), height |-> Some(height)], <<>>)
    /\ last = [op |-> "new", args |-> <<rule, width, height>>]
    /\ NoManager
    /\ panel = <<>>
    /\ snap = <<>>
    /\ twin = <<>>
    /\ rows = <<>>

RuleStep ==
  /\ eng.currentGeneration < MaxGen
  /\ Mirrored(step(eng), [type |-> "step", id |-> 0, steps |-> Some(1)], "step", <<>>)

\* The seeds: "single"; every explicit row of the engine's width, unless the
\* call before was a seed already; on an engine whose stored rule is one of
\* RuleArgs also a pattern name the engine does not know, and no pattern at all.
RuleSeed ==
  \E pattern \in {[kind |-> "single"]}
                   \cup (IF last.op # "setInitialCondition"
                         THEN {[kind |-> "Uint8Array", data |-> d] : d \in BinaryRows(eng.width)}
                         ELSE {})
                   \cup (IF eng.rule \in RuleArgs
                         THEN {[kind |-> "spiral"], [kind |-> "undefined"]}
                         ELSE {}) :
    Mirrored(setInitialCondition(eng, pattern, <<>>),
             [type |-> "setInitialCondition", id |-> 0,
              pattern |-> IF pattern.kind = "undefined" THEN Undefined ELSE Some(pattern)],
             "setInitialCondition", <<pattern>>)

RuleSetRule ==
  \E rule \in AllRuleArgs :
    /\ last.op = "new"
    /\ last.args[1] \in RuleArgs
    /\ Mirrored(setRule(eng, rule), [type |-> "setRule", id |-> 0, rule |-> Some(rule)],
                "setRule", <<rule>>)

RuleReset ==
  \E newRule \in {Undefined, Some(30), Some(300)} :
    Mirrored(reset(eng, newRule), [type |-> "reset", id |-> 0, newRule |-> newRule],
             "reset", <<newRule>>)

\* The bare engine takes over the snapshot of another engine of its own
\* dimensions, built with a rule of RuleArgs and stepped once; the worker has
\* no such message and keeps its engine.
RuleRestore ==
  \E rule \in RuleArgs :
    /\ last.op = "new"
    /\ last.args[1] \in RuleArgs
    /\ eng' = restore(eng, clone(step(CAEngine(rule, eng.width, eng.height))))
    /\ last' = [op |-> "restore", args |-> <<rule>>]
    /\ UNCHANGED <<snap, panel, twin, worker, rows, mgr, hosts, calls, timers>>

RuleNext ==
  \/ RuleStep
  \/ RuleSeed
  \/ RuleSetRule
  \/ RuleReset
  \/ RuleRestore

RuleSpec == RuleInit /\ [][RuleNext]_vars

(***************************************************************************)
(* The manager and its workers.  A caller makes up to MaxCalls calls on    *)
(* one CAWorkerManager, in any order and without waiting for their         *)
(* promises; each worker handles the messages queued to it one at a time,  *)
(* in order; the responses of a worker are dispatched to the manager in    *)
(* order; the timeouts fire oldest first, at any moment; a worker may fail *)
(* to start, which raises an error event.  All events of the main thread   *)
(* (calls, message events, error events, timeouts) are tasks that run one  *)
(* at a time.                                                              *)
(***************************************************************************)
MaxCalls == 3

\* The width and height given to init.
MgrDims == {<<-1, 1>>, <<0, 1>>, <<2, 1>>}
\* The arguments of step: none, or a number of steps.
StepArgs == {Undefined}
MgrPatterns == {[kind |-> "Uint8Array", data |-> <<1, 1>>]}
MgrRules == {90}

World == [mgr |-> mgr, hosts |-> hosts, calls |-> calls, timers |-> timers]

\* The main thread has run the task op and left w.
Becomes(w, op, args) ==
  /\ mgr' = w.mgr
  /\ hosts' = w.hosts
  /\ calls' = w.calls
  /\ timers' = w.timers
  /\ last' = [op |-> op, args |-> args]
  /\ UNCHANGED <<snap, panel, twin, eng, worker, rows>>

MgrInit ==
  /\ NoManager
  /\ panel = <<>>
  /\ snap = <<>>
  /\ twin = <<>>
  /\ last = [op |-> "new", args |-> <<>>]
  /\ eng = CAEngine(30, 1, 1)
  /\ worker = [engine |-> Undefined, posted |-> <<>>]
  /\ rows = <<>>

CallInit ==
  \E d \in MgrDims :
    /\ Len(calls) < MaxCalls
    /\ Becomes(manager_init(World, 30, d[1], d[2]), "init", <<30, d[1], d[2]>>)

CallStep ==
  \E steps \in StepArgs :
    /\ Len(calls) < MaxCalls
    /\ Becomes(manager_step(World, steps), "step", <<steps>>)

CallSetInitialCondition ==
  \E pattern \in MgrPatterns :
    /\ Len(calls) < MaxCalls
    /\ Becomes(manager_setInitialCondition(World, pattern), "setInitialCondition", <<pattern>>)

CallSetRule ==
  \E rule \in MgrRules :
    /\ Len(calls) < MaxCalls
    /\ Becomes(manager_setRule(World, rule), "setRule", <<rule>>)

CallReset ==
  \E newRule \in {Undefined} :
    /\ Len(calls) < MaxCalls
    /\ Becomes(manager_reset(World, newRule), "reset", <<newRule>>)

CallGetState ==
  /\ Len(calls) < MaxCalls
  /\ Becomes(manager_getState(World), "getState", <<>>)

\* terminate() is a synchronous method: it returns no promise.
CallTerminate ==
  /\ Len(calls) < MaxCalls
  /\ Becomes(terminate([Called(World, "terminate") EXCEPT
                          !.calls[Len(calls) + 1].result = NoPromise]),
             "terminate", <<>>)

\* Worker k, whose script has loaded, handles the oldest message queued to
\* it.
HostHandles ==
  \E k \in 1..Len(hosts) :
    /\ hosts[k].live
    /\ hosts[k].script # "failed"
    /\ hosts[k].inbox # <<>>
    /\ LET handled == onmessage(hosts[k].engine, Head(hosts[k].inbox), <<>>)
       IN  hosts' = [hosts EXCEPT ![k] = [@ EXCEPT !.engine = handled.engine,
                                                    !.script = "running",
                                                    !.inbox = Tail(@),
                                                    !.outbox = @ \o handled.posted]]
    /\ last' = [op |-> "handle", args |-> <<k>>]
    /\ UNCHANGED <<snap, panel, twin, eng, worker, rows, mgr, calls, timers>>

\* The message event of the oldest response of worker k is dispatched.
MessageEvent ==
  \E k \in 1..Len(hosts) :
    /\ hosts[k].live
    /\ hosts[k].outbox # <<>>
    /\ Becomes(handleMessage([World EXCEPT !.hosts[k].outbox = Tail(@)],
                             Head(hosts[k].outbox)),
               "message", <<k>>)

\* The messages an error event of a script that fails to load carries: none,
\* or the empty string.
ErrorMessages == {Undefined, Some("")}

\* An error event of worker k is dispatched.  The listener of ca-worker.js
\* catches every exception of its handlers, so the error event of a worker
\* is the failure to load or run its script: it comes before the worker has
\* handled any message, and the worker handles none afterwards.
ErrorEvent ==
  \E k \in 1..Len(hosts) :
    /\ hosts[k].live
    /\ hosts[k].script = "loading"
    /\ \E message \in ErrorMessages :
         Becomes(handleError([World EXCEPT !.hosts[k].script = "failed"], message),
                 "error", <<k>>)

\* The oldest timeout fires.
Timeout ==
  /\ timers # <<>>
  /\ Becomes(onTimeout([World EXCEPT !.timers = Tail(@)], Head(timers)),
             "timeout", <<>>)

MgrNext ==
  \/ CallInit
  \/ CallStep
  \/ CallSetInitialCondition
  \/ CallSetRule
  \/ CallReset
  \/ CallGetState
  \/ CallTerminate
  \/ HostHandles
  \/ MessageEvent
  \/ ErrorEvent
  \/ Timeout

MgrSpec == MgrInit /\ [][MgrNext]_vars

(***************************************************************************)
(* The manager and its workers, with the timeouts that were set firing in  *)
(* the end: setTimeout runs its callback once the delay has passed.  No    *)
(* worker is bound to handle a message, and no response to arrive.         *)
(***************************************************************************)
MgrLiveSpec == MgrInit /\ [][MgrNext]_vars /\ WF_vars(Timeout)

(***************************************************************************)
(* The worker alone.  Messages of every type reach the listener of one     *)
(* worker in any order, before and after an init: the six request types    *)
(* with their parameters given or left out, and types the listener does    *)
(* not know.  worker holds the engine of the worker and the responses to   *)
(* the last message as their receiver holds them; the receiver may write   *)
(* into the state it received.                                             *)
(***************************************************************************)
HostIds == {3, 7}
HostDims == {<<3, 2>>, <<2, 1>>, <<0, 1>>, <<-1, 1>>}
HostRules == {30, 90}
UnknownTypes == {"undefined", "clone", "terminate"}

InitMessages ==
  {[type |-> "init", rule |-> Some(rule), width |-> Some(d[1]), height |-> Some(d[2])] :
     rule \in HostRules, d \in HostDims}
    \cup {[type |-> "init", rule |-> Undefined, width |-> Some(3), height |-> Some(2)],
          [type |-> "init", rule |-> Some(30), width |-> Undefined, height |-> Some(2)],
          [type |-> "init", rule |-> Some(30), width |-> Some(3), height |-> Undefined]}

StepMessages == {[type |-> "step", steps |-> steps] : steps \in {Undefined} \cup {Some(n) : n \in 0..MaxGen}}

SeedMessages ==
  {[type |-> "setInitialCondition", pattern |-> pattern] :
     pattern \in {Undefined, Some([kind |-> "single"]), Some([kind |-> "random"]),
                  Some([kind |-> "spiral"]),
                  Some([kind |-> "Uint8Array", data |-> <<1, 1>>]),
                  Some([kind |-> "Uint8Array", data |-> <<1, 0, 1, 1>>])}}

OtherMessages ==
  {[type |-> "setRule", rule |-> rule] : rule \in {Undefined, Some(90), Some(300)}}
    \cup {[type |-> "reset", newRule |-> newRule] : newRule \in {Undefined, Some(90)}}
    \cup {[type |-> "getState"]}
    \cup {[type |-> type] : type \in UnknownTypes}

HostMessages == InitMessages \cup StepMessages \cup SeedMessages \cup OtherMessages

\* The number of steps a step message asks for: 1 when it names none.
StepsAsked(data) == IF data.steps = Undefined THEN 1 ELSE data.steps[1]

HostInit ==
  /\ worker = [engine |-> Undefined, posted |-> <<>>]
  /\ last = [op |-> "new", args |-> <<>>]
  /\ eng = CAEngine(30, 1, 1)
  /\ NoManager
  /\ panel = <<>>
  /\ snap = <<>>
  /\ twin = <<>>
  /\ rows = <<>>

\* A message event of the worker: the listener runs to its end.
HostMessage ==
  \E message \in HostMessages, id \in HostIds :
    \E rnd \in IF message.type = "setInitialCondition" /\ worker.engine # Undefined
                  /\ message.pattern = Some([kind |-> "random"])
               THEN [1..worker.engine[1].width -> BOOLEAN] ELSE {<<>>} :
      /\ (message.type = "step" /\ worker.engine # Undefined) =>
           worker.engine[1].currentGeneration + Max(1, StepsAsked(message)) <= MaxGen
      /\ worker' = onmessage(worker.engine, message @@ [id |-> id], rnd)
      /\ last' = [op |-> "message", args |-> <<message @@ [id |-> id]>>]
      /\ UNCHANGED <<snap, panel, twin, eng, rows, mgr, hosts, calls, timers>>

\* The receiver of a state response writes into the array it was given.
ClientWrites ==
  /\ last.op = "message"
  /\ Len(worker.posted) = 1
  /\ worker.posted[1].type = "state"
  /\ \E x \in 0..(Len(worker.posted[1].state) - 1), v \in {0, 1} :
       /\ worker' = [worker EXCEPT !.posted[1].state = WriteAt(@, x, Some(v))]
       /\ worker' # worker
  /\ last' = [op |-> "clientWrite", args |-> <<>>]
  /\ UNCHANGED <<snap, panel, twin, eng, rows, mgr, hosts, calls, timers>>

HostNext ==
  \/ HostMessage
  \/ ClientWrites

HostSpec == HostInit /\ [][HostNext]_vars

(***************************************************************************)
(* Two engines.  eng and twin are constructed apart with the same rule and *)
(* dimensions.  eng is given its initial row at once.  twin may be used    *)
(* first: seeded at random, with the outcomes of Math.random() drawn for   *)
(* it, and stepped, so that its buffer, its counter and its working rows   *)
(* hold what that use left; then it is given the same initial row, the     *)
(* single cell or the same explicit row of at most width cells.  Every     *)
(* call is then made on both.  twin[2] records the steps of the earlier    *)
(* use.                                                                    *)
(***************************************************************************)
PairPatterns(width) ==
  {[kind |-> "single"]} \cup {[kind |-> "Uint8Array", data |-> d] : d \in SeqsUpTo({0, 1}, width)}

\* The engine e after an earlier use: seeded at random and stepped.
usedBefore(e, rnd, steps) ==
  IF steps = 0 THEN e
  ELSE generate(setInitialCondition(e, [kind |-> "random"], rnd), steps)

PairInit ==
  \E rule \in RuleArgs, width \in Widths, height \in Heights :
    \E pattern \in PairPatterns(width), rnd \in [1..width -> BOOLEAN], steps \in StepCounts :
      /\ eng = setInitialCondition(CAEngine(rule, width, height), pattern, <<>>)
      /\ twin = <<setInitialCondition(usedBefore(CAEngine(rule, width, height), rnd, steps),
                                      pattern, <<>>),
                  [steps |-> steps]>>
      /\ last = [op |-> "new", args |-> <<rule, width, height, pattern>>]
      /\ worker = [engine |-> Undefined, posted |-> <<>>]
      /\ NoManager
      /\ panel = <<>>
      /\ snap = <<>>
      /\ rows = <<>>

\* The call made on eng and on twin.
Both(first, second, op, args) ==
  /\ eng' = first
  /\ twin' = <<second, twin[2]>>
  /\ last' = [op |-> op, args |-> args]
  /\ UNCHANGED <<snap, panel, worker, rows, mgr, hosts, calls, timers>>

PairStep ==
  /\ eng.currentGeneration < MaxGen
  /\ Both(step(eng), step(twin[1]), "step", <<>>)

PairGenerate ==
  \E steps \in StepCounts :
    /\ eng.currentGeneration + steps <= MaxGen
    /\ Both(generate(eng, steps), generate(twin[1], steps), "generate", <<steps>>)

PairSetRule ==
  \E rule \in RuleArgs :
    Both(setRule(eng, rule), setRule(twin[1], rule), "setRule", <<rule>>)

PairNext ==
  \/ PairStep
  \/ PairGenerate
  \/ PairSetRule

PairSpec == PairInit /\ [][PairNext]_vars

(***************************************************************************)
(* The single seed on rows of odd width.  An engine of any rule 0..255 and *)
(* of an odd width up to 2 * MaxWidth - 1 is stepped from the seed its     *)
(* constructor or a reset() gave it, far enough for the cells to meet      *)
(* around the ring.                                                        *)
(***************************************************************************)
OddWidths == {2 * n - 1 : n \in 1..MaxWidth}

SymInit ==
  \E rule \in 0..255, width \in OddWidths, height \in Heights :
    /\ eng = CAEngine(rule, width, height)
    /\ last = [op |-> "new", args |-> <<rule, width, height>>]
    /\ worker = [engine |-> Undefined, posted |-> <<>>]
    /\ NoManager
    /\ panel = <<>>
    /\ snap = <<>>
    /\ twin = <<>>
    /\ rows = <<>>

SymStep ==
  /\ eng.currentGeneration < MaxWidth + 1
  /\ eng' = step(eng)
  /\ last' = [op |-> "step", args |-> <<>>]
  /\ UNCHANGED <<snap, panel, twin, worker, rows, mgr, hosts, calls, timers>>

SymReset ==
  /\ eng.currentGeneration > 0
  /\ eng' = reset(eng, Undefined)
  /\ last' = [op |-> "reset", args |-> <<Undefined>>]
  /\ UNCHANGED <<snap, panel, twin, worker, rows, mgr, hosts, calls, timers>>

SymNext ==
  \/ SymStep
  \/ SymReset

SymSpec == SymInit /\ [][SymNext]_vars

(***************************************************************************)
(* Vocabulary of the properties.                                           *)
(***************************************************************************)
\* Row r of the buffer of engine e, as a sequence of width cells.
RowOf(e, r) == SubSeq(e.state, r * e.width + 1, (r + 1) * e.width)

\* The row the engine holds as current.
CurrentRowOf(e) == RowOf(e, e.currentGeneration % e.height)

\* The left and right neighbours of column x on a ring of w cells.
LeftOf(x, w) == IF x = 0 THEN w - 1 ELSE x - 1
RightOf(x, w) == IF x = w - 1 THEN 0 ELSE x + 1

\* The number whose binary digits are the entries of the table.
TableValue(table) ==
  table[1] + 2 * table[2] + 4 * table[3] + 8 * table[4]
    + 16 * table[5] + 32 * table[6] + 64 * table[7] + 128 * table[8]

Clamp(rule) == IF rule < 0 THEN 0 ELSE IF rule > 255 THEN 255 ELSE rule

\* The index (left<<2)|(center<<1)|right of column x of a row of w cells.
NeighborhoodOf(row, x, w) ==
  BitOr(BitOr(4 * row[LeftOf(x, w) + 1], 2 * row[x + 1]), row[RightOf(x, w) + 1])

\* The cell an 8-bit rule gives for a neighbourhood index; an index past the
\* table gives the 0 a Uint8Array stores for a missing entry.
RuleCell(rule, index) == IF index \in 0..7 THEN (rule \div (2 ^ index)) % 2 ELSE 0

(***************************************************************************)
(* The buffer as a ring of rows.  Engines of two rules and of every width  *)
(* and height are seeded with the single cell or an explicit row, stepped  *)
(* up to RingGens times past the seed, given the other rule between steps  *)
(* and reset; rows records, for each generation since the seed, the row    *)
(* the rule in force gives from the row of the generation before.          *)
(***************************************************************************)
RingRules == {30, 90}

\* Generations past the seed: more than the tallest ring has rows.
RingGens == MaxHeight + 2
\* The heights of the rings: one row, and up to one more than MaxHeight.
RingHeights == 1..(MaxHeight + 1)

\* The row that follows row under an 8-bit rule, the row read as a ring.
RuleRow(rule, row) ==
  [x \in 1..Len(row) |-> RuleCell(rule, NeighborhoodOf(row, x - 1, Len(row)))]

\* The row with the single active cell at floor(width/2).
SingleRow(width) == [x \in 1..width |-> IF x - 1 = width \div 2 THEN 1 ELSE 0]

RingInit ==
  \E rule \in RingRules, width \in Widths, height \in RingHeights :
    /\ eng = CAEngine(rule, width, height)
    /\ rows = <<SingleRow(width)>>
    /\ last = [op |-> "new", args |-> <<rule, width, height>>]
    /\ worker = [engine |-> Undefined, posted |-> <<>>]
    /\ NoManager
    /\ panel = <<>>
    /\ snap = <<>>
    /\ twin = <<>>

RingStep ==
  /\ eng.currentGeneration < RingGens
  /\ eng' = step(eng)
  /\ rows' = Append(rows, RuleRow(eng.rule, rows[Len(rows)]))
  /\ last' = [op |-> "step", args |-> <<>>]
  /\ UNCHANGED <<snap, panel, twin, worker, mgr, hosts, calls, timers>>

RingSeed ==
  \E data \in BinaryRows(eng.width) :
    /\ eng' = setInitialCondition(eng, [kind |-> "Uint8Array", data |-> data], <<>>)
    /\ rows' = <<data>>
    /\ last' = [op |-> "setInitialCondition", args |-> <<data>>]
    /\ UNCHANGED <<snap, panel, twin, worker, mgr, hosts, calls, timers>>

RingSetRule ==
  \E rule \in RingRules :
    /\ eng' = setRule(eng, rule)
    /\ last' = [op |-> "setRule", args |-> <<rule>>]
    /\ UNCHANGED <<snap, panel, twin, rows, worker, mgr, hosts, calls, timers>>

RingReset ==
  /\ eng' = reset(eng, Undefined)
  /\ rows' = <<SingleRow(eng.width)>>
  /\ last' = [op |-> "reset", args |-> <<Undefined>>]
  /\ UNCHANGED <<snap, panel, twin, worker, mgr, hosts, calls, timers>>

RingNext ==
  \/ RingStep
  \/ RingSeed
  \/ RingSetRule
  \/ RingReset

RingSpec == RingInit /\ [][RingNext]_vars

(***************************************************************************)
(* The worked examples.  Engines of rule 30 and rule 90, 7 and 9 cells     *)
(* wide, are stepped from the single seed of the constructor or of a       *)
(* reset(), and given the other rule between steps.                        *)
(***************************************************************************)
ExampleRules == {30, 90}
ExampleWidths == {7, 9}
\* Generations past the seed.
ExampleGens == 3

ExampleInit ==
  \E rule \in ExampleRules, width \in ExampleWidths, height \in Heights :
    /\ eng = CAEngine(rule, width, height)
    /\ last = [op |-> "new", args |-> <<rule, width, height>>]
    /\ worker = [engine |-> Undefined, posted |-> <<>>]
    /\ NoManager
    /\ panel = <<>>
    /\ snap = <<>>
    /\ twin = <<>>
    /\ rows = <<>>

ExampleStep ==
  /\ eng.currentGeneration < ExampleGens
  /\ eng' = step(eng)
  /\ last' = [op |-> "step", args |-> <<>>]
  /\ UNCHANGED <<snap, panel, twin, worker, rows, mgr, hosts, calls, timers>>

ExampleSetRule ==
  \E rule \in ExampleRules :
    /\ eng' = setRule(eng, rule)
    /\ last' = [op |-> "setRule", args |-> <<rule>>]
    /\ UNCHANGED <<snap, panel, twin, worker, rows, mgr, hosts, calls, timers>>

ExampleReset ==
  /\ eng.currentGeneration > 0
  /\ eng' = reset(eng, Undefined)
  /\ last' = [op |-> "reset", args |-> <<Undefined>>]
  /\ UNCHANGED <<snap, panel, twin, worker, rows, mgr, hosts, calls, timers>>

ExampleNext ==
  \/ ExampleStep
  \/ ExampleSetRule
  \/ ExampleReset

ExampleSpec == ExampleInit /\ [][ExampleNext]_vars

(***************************************************************************)
(* Snapshots.  One engine is stepped, given rules, reset and seeded; at    *)
(* any moment its caller takes a clone(), and at any later moment gives    *)
(* the object back to restore().  snap holds the object, the buffer its    *)
(* state array is a view of, and, for comparison, the engine as it was     *)
(* when the clone was taken.  An array that is a view of the engine's own  *)
(* buffer shows whatever the engine writes.                                *)
(***************************************************************************)
CloneRules == {30, 300}
CloneRows == {<<1, 1>>}

\* The snapshot held, after a call has left the engine as e.
Held(s, e) ==
  IF s # <<>> /\ s[1].buffer = "state" THEN <<[s[1] EXCEPT !.c.state = e.state]>> ELSE s

\* A call on the engine that is not clone().
Called39(e, op, args) ==
  /\ eng' = e
  /\ snap' = Held(snap, e)
  /\ last' = [op |-> op, args |-> args]
  /\ UNCHANGED <<panel, twin, worker, rows, mgr, hosts, calls, timers>>

CloneInit ==
  \E rule \in CloneRules, width \in Widths, height \in Heights :
    /\ eng = CAEngine(rule, width, height)
    /\ snap = <<>>
    /\ last = [op |-> "new", args |-> <<rule, width, height>>]
    /\ worker = [engine |-> Undefined, posted |-> <<>>]
    /\ NoManager
    /\ panel = <<>>
    /\ twin = <<>>
    /\ rows = <<>>

CloneStep ==
  /\ eng.currentGeneration < MaxGen
  /\ Called39(step(eng), "step", <<>>)

CloneSetRule ==
  \E rule \in CloneRules : Called39(setRule(eng, rule), "setRule", <<rule>>)

CloneReset ==
  \E newRule \in {Undefined} : Called39(reset(eng, newRule), "reset", <<newRule>>)

CloneSeed ==
  \E data \in CloneRows :
    Called39(setInitialCondition(eng, [kind |-> "Uint8Array", data |-> data], <<>>),
             "setInitialCondition", <<data>>)

\* clone(): state is new Uint8Array(this.state), an array on a buffer of its
\* own.
CloneTake ==
  /\ snap = <<>>
  /\ snap' = <<[c |-> clone(eng),
               buffer |-> Uint8ArrayFrom([buffer |-> "state", cells |-> getState(eng)]).buffer,
               of |-> eng]>>
  /\ last' = [op |-> "clone", args |-> <<>>]
  /\ UNCHANGED <<panel, eng, twin, worker, rows, mgr, hosts, calls, timers>>

CloneRestore ==
  /\ snap # <<>>
  /\ last.op # "restore"
  /\ Called39(restore(eng, snap[1].c), "restore", <<>>)

CloneNext ==
  \/ CloneStep
  \/ CloneSetRule
  \/ CloneReset
  \/ CloneSeed
  \/ CloneTake
  \/ CloneRestore

CloneSpec == CloneInit /\ [][CloneNext]_vars

(***************************************************************************)
(* The rule field.  Its user types and deletes: each input event brings    *)
(* the text the field then holds; the change event comes when the user     *)
(* commits the field after at least one input event, and ends the edit.    *)
(* Time passes between the events; a timeout runs its callback when it is  *)
(* due, before or after an event of the same instant, and time does not    *)
(* pass beyond a timeout that is due.  panel also holds the text of the    *)
(* field, whether it was edited since the last change event, the time of   *)
(* the last input event, the number of the edit under way, and the last    *)
(* valid value each edit entered.                                          *)
(***************************************************************************)
\* The edits made, and the last instant of the clock.
MaxEdits == 1
MaxTime == 700

\* The texts the field holds, which are those a number field gives as its
\* value (the empty text when it is cleared, or a decimal number), and the
\* time between two events.
RuleTexts ==
  {Text(chars) : chars \in {<<>>, <<"9">>, <<"9", "0">>, <<"9", "0", "0">>, <<"4", ".", "5">>}}
Gaps == {200, 500}

\* The objects given to setState and to setCallbacks: a random rule or the
\* pause flag, and a function for onRuleChange or null.
RandomRules == {0, 90, 255}
NewStates == {[rule |-> r] : r \in RandomRules} \cup {[isPaused |-> b] : b \in BOOLEAN}
CallbackSets == {[onRuleChange |-> Some("function")], [onRuleChange |-> Undefined]}

ControlInit ==
  /\ panel = ControlManager @@
               [now |-> 0, invoked |-> <<>>, text |-> Text(<<"3", "0">>), dirty |-> FALSE,
                lastInput |-> Undefined, edit |-> 1, entered |-> <<Undefined>>]
  /\ last = [op |-> "new", args |-> <<>>]
  /\ eng = CAEngine(30, 1, 1)
  /\ worker = [engine |-> Undefined, posted |-> <<>>]
  /\ mgr = CAWorkerManager
  /\ hosts = <<>>
  /\ calls = <<>>
  /\ timers = <<>>
  /\ twin = <<>>
  /\ snap = <<>>
  /\ rows = <<>>

\* The control panel has become p by the event op.
Panel(p, op, args) ==
  /\ panel' = p
  /\ last' = [op |-> op, args |-> args]
  /\ UNCHANGED <<eng, twin, snap, worker, rows, mgr, hosts, calls, timers>>

\* Time passes: by one of the gaps, or up to the moment the timeout that is
\* set is due if that comes first.
Advance ==
  \E gap \in Gaps :
    LET due == IF "rule" \in DOMAIN panel.debounceTimers
               THEN panel.debounceTimers["rule"].due ELSE MaxTime
        then == Min(Min(panel.now + gap, MaxTime), Max(due, panel.now))
    IN  /\ then > panel.now
        /\ Panel([panel EXCEPT !.now = then], "wait", <<then - panel.now>>)

\* An input event of the rule field: its text is now text.
RuleInput ==
  \E text \in RuleTexts :
    /\ text # panel.text
    /\ panel.edit <= MaxEdits
    /\ LET typed == [panel EXCEPT !.text = text, !.dirty = TRUE, !.lastInput = Some(panel.now),
                                  !.entered[panel.edit] =
                                     IF validRule(parseInt(text)) THEN Some(parseInt(text).n) ELSE @]
       IN  Panel(onRuleInput(typed, text), "input", <<text>>)

\* The change event of the rule field: the edit is complete.
RuleFieldChange ==
  /\ panel.dirty
  /\ LET handled == onRuleFieldChange(panel, panel.text)
     IN  Panel([handled EXCEPT !.dirty = FALSE, !.edit = @ + 1,
                               !.entered = Append(@, Undefined)],
               "change", <<panel.text>>)

\* The timeout of the rule field is due and runs its callback.
RuleTimeout ==
  /\ "rule" \in DOMAIN panel.debounceTimers
  /\ panel.debounceTimers["rule"].due <= panel.now
  /\ Panel(ruleCallback(panel, panel.debounceTimers["rule"]), "debounced", <<>>)

\* The application sets the state of the panel, by a key or a button.
SetState ==
  \E newState \in NewStates :
    /\ DOMAIN newState \subseteq DOMAIN panel.state
    /\ Panel(setState(panel, newState), "setState", <<newState>>)

\* The play/pause button is clicked.
PlayPauseClick ==
  /\ panel.state.isPaused \in BOOLEAN
  /\ Panel(onPlayPauseClick(panel), "click", <<"play-pause-btn">>)

\* The application registers its functions, or takes them away.
SetCallbacks ==
  \E callbacks \in CallbackSets :
    /\ callbacks.onRuleChange # panel.callbacks.onRuleChange
    /\ Panel(setCallbacks(panel, callbacks), "setCallbacks", <<callbacks>>)

ControlNext ==
  \/ Advance
  \/ RuleInput
  \/ RuleFieldChange
  \/ RuleTimeout
  \/ SetState
  \/ PlayPauseClick
  \/ SetCallbacks

ControlSpec == ControlInit /\ [][ControlNext]_vars

\* C1: step() computes every cell x of the new row as
\* ruleTable[(left<<2)|(center<<1)|right] from the cells x-1, x, x+1 of the
\* row that was current before the call, the row read as a ring.
C1_StepAppliesRule ==
  [][last'.op = "step" =>
       LET w == eng.width
           old == CurrentRowOf(eng)
           new == CurrentRowOf(eng')
       IN  \A x \in 0..(w - 1) :
             new[x + 1] =
               eng.ruleLookup[4 * old[LeftOf(x, w) + 1] + 2 * old[x + 1]
                                + old[RightOf(x, w) + 1] + 1]]_vars

\* A step of rule 30 on the width-3 row 100: the cell at column 2 is set
\* through its right neighbour, column 0.
C1_Witness ==
  /\ last.op = "step"
  /\ eng.rule = 30
  /\ eng.width = 3
  /\ eng.height = 2
  /\ eng.currentGeneration = 1
  /\ eng.state = <<1, 0, 0, 1, 1, 1>>

\* C2: the rule table is the binary expansion of the stored rule: entry i is
\* bit i of rule, in every reachable state.
C2_TableIsBitsOfRule ==
  /\ \A i \in 1..8 : eng.ruleLookup[i] \in {0, 1}
  /\ TableValue(eng.ruleLookup) = eng.rule % 256
  /\ \A i \in 0..7 : eng.ruleLookup[i + 1] = (eng.rule \div (2 ^ i)) % 2

\* setRule(110) has replaced the table of the rule the engine was built with.
C2_Witness ==
  /\ last.op = "setRule"
  /\ last.args = <<110>>
  /\ eng.rule = 110
  /\ eng.ruleLookup = <<0, 1, 1, 1, 0, 1, 1, 0>>

\* C3: the stored rule is in [0,255] in every reachable state, in the bare
\* engine and in the engine the worker built from an init message.
C3_RuleInRange ==
  /\ getRule(eng) \in 0..255
  /\ worker.engine # Undefined => worker_getRule(worker.engine[1]) \in 0..255

\* C4: an engine constructed with an out-of-range rule has the clamped rule
\* and that rule's table: built with 300 it is a rule-255 engine.
C4_ConstructorClamps ==
  last.op = "new" =>
    /\ getRule(eng) = Clamp(last.args[1])
    /\ TableValue(eng.ruleLookup) = Clamp(last.args[1])
    /\ worker.engine # Undefined =>
         /\ worker_getRule(worker.engine[1]) = Clamp(last.args[1])
         /\ TableValue(worker.engine[1].ruleLookup) = Clamp(last.args[1])

\* C5: setRule(r) stores max(0, min(255, r)), and the worker answers a
\* setRule message with one ruleChanged response that reports that value.
C5_SetRuleClamps ==
  last.op = "setRule" =>
    LET r == last.args[1]
        stored == IF r < 0 THEN 0 ELSE IF r > 255 THEN 255 ELSE r
    IN  /\ getRule(eng) = stored
        /\ worker.engine # Undefined =>
             /\ worker_getRule(worker.engine[1]) = stored
             /\ Len(worker.posted) = 1
             /\ worker.posted[1].type = "ruleChanged"
             /\ worker.posted[1].rule = stored

\* setRule(300) has stored 255 and the worker has reported 255.
C5_Witness ==
  /\ last.op = "setRule"
  /\ last.args = <<300>>
  /\ eng.rule = 255
  /\ worker.posted = <<[type |-> "ruleChanged", id |-> 0, rule |-> 255]>>

\* C6: setRule changes neither the generation counter nor any cell of the
\* buffer, and the step that follows it computes its row with the new rule.
C6_SetRuleFrame ==
  [][/\ last'.op = "setRule" =>
          /\ eng'.currentGeneration = eng.currentGeneration
          /\ eng'.state = eng.state
     /\ (last.op = "setRule" /\ last'.op = "step") =>
          LET w == eng.width
              old == CurrentRowOf(eng)
              new == CurrentRowOf(eng')
          IN  \A x \in 0..(w - 1) :
                new[x + 1] = RuleCell(Clamp(last.args[1]), NeighborhoodOf(old, x, w))]_vars

\* setRule(90) after two steps of rule 30 from the single seed: the rows
\* 111 and 000 that rule 30 produced are still in the buffer.
C6_Witness ==
  /\ last.op = "setRule"
  /\ last.args = <<90>>
  /\ eng.rule = 90
  /\ eng.width = 3
  /\ eng.height = 2
  /\ eng.currentGeneration = 2
  /\ eng.state = <<0, 0, 0, 1, 1, 1>>

\* C7: the generation counter grows by 1 per step() and by n per
\* generate(n), generate(0) changing nothing; reset() and
\* setInitialCondition() set it to 0; setRule and the reads leave it.
C7_GenerationCounter ==
  [][/\ last'.op = "step" => getGeneration(eng') = getGeneration(eng) + 1
     /\ last'.op = "generate" =>
          /\ getGeneration(eng') = getGeneration(eng) + last'.args[1]
          /\ last'.args[1] = 0 => eng'.state = eng.state
     /\ last'.op \in {"reset", "setInitialCondition"} => getGeneration(eng') = 0
     /\ last'.op \in {"setRule", "query"} => getGeneration(eng') = getGeneration(eng)]_vars

\* generate(2) called on a fresh 3 x 2 engine of rule 30 has brought the
\* counter to 2 and written the rows 111 and 000.
C7_Witness ==
  /\ last.op = "generate"
  /\ last.args = <<2>>
  /\ eng.rule = 30
  /\ eng.currentGeneration = 2
  /\ eng.state = <<0, 0, 0, 1, 1, 1>>

\* C8: every cell of the buffer is 0 or 1 in every reachable state.
C8_CellsBinary == \A k \in 1..Len(eng.state) : eng.state[k] \in {0, 1}

\* C9: after setInitialCondition (and after construction) the counter is 0
\* and every row but row 0 is all zeros; the "single" seed and the
\* constructor's seed have exactly one active cell, at floor(width/2).
C9_SeedResets ==
  last.op \in {"setInitialCondition", "new"} =>
    /\ eng.currentGeneration = 0
    /\ \A r \in 1..(eng.height - 1) : \A x \in 1..eng.width : RowOf(eng, r)[x] = 0
    /\ (last.op = "new" \/ last.args[1].kind = "single") =>
         \A x \in 0..(eng.width - 1) :
           RowOf(eng, 0)[x + 1] = IF 2 * x \in {eng.width - 1, eng.width} THEN 1 ELSE 0

\* setInitialCondition("single") on a 3 x 2 engine.
C9_Witness ==
  /\ last.op = "setInitialCondition"
  /\ last.args = <<[kind |-> "single"]>>
  /\ eng.width = 3
  /\ eng.height = 2
  /\ eng.state = <<0, 1, 0, 0, 0, 0>>

\* C10: after setInitialCondition with an explicit row of any length L, row 0
\* is the first min(L, width) cells of that row followed by zeros, and the
\* generation is 0.
C10_CustomRowPadded ==
  (last.op = "setInitialCondition" /\ last.args[1].kind = "Uint8Array") =>
    LET data == last.args[1].data
    IN  /\ eng.currentGeneration = 0
        /\ \A x \in 1..eng.width :
             RowOf(eng, 0)[x] = IF x <= Len(data) THEN data[x] ELSE 0

\* A row of length 1 on a width-3 engine: cells 1 and 2 are 0.
C10_Witness ==
  /\ last.op = "setInitialCondition"
  /\ last.args = <<[kind |-> "Uint8Array", data |-> <<1>>]>>
  /\ eng.width = 3
  /\ RowOf(eng, 0) = <<1, 0, 0>>

\* Engine e is at generation 0 with the single-cell seed in row 0 (one
\* active cell, at floor(width/2)) and zeros in every other row.
SingleSeeded(e) ==
  /\ e.currentGeneration = 0
  /\ \A x \in 0..(e.width - 1) :
       RowOf(e, 0)[x + 1] = IF 2 * x \in {e.width - 1, e.width} THEN 1 ELSE 0
  /\ \A r \in 1..(e.height - 1) : \A x \in 1..e.width : RowOf(e, r)[x] = 0

KnownKinds == {"single", "random", "Uint8Array"}

\* C11: setInitialCondition with a pattern that is not "single", "random" or
\* an explicit row does what "single" does: row 0 holds exactly the one
\* centre cell, in the bare engine and in the worker, which answers with the
\* seeded state and not with an error.
C11_UnknownPatternIsSingle ==
  [][(last'.op = "setInitialCondition" /\ last'.args[1].kind \notin KnownKinds) =>
       /\ eng' = setInitialCondition(eng, [kind |-> "single"], <<>>)
       /\ SingleSeeded(eng')
       /\ \E x \in 1..eng.width : RowOf(eng', 0)[x] = 1
       /\ worker.engine # Undefined =>
            /\ worker'.engine[1] =
                 worker_setInitialCondition(worker.engine[1], [kind |-> "single"], <<>>)
            /\ SingleSeeded(worker'.engine[1])
            /\ Len(worker'.posted) = 1
            /\ worker'.posted[1].type = "state"
            /\ worker'.posted[1].state = worker'.engine[1].state]_vars

\* setInitialCondition("spiral") after a step of a 3 x 2 engine: the row the
\* step wrote is gone and row 0 is 010.
C11_Witness ==
  /\ last.op = "setInitialCondition"
  /\ last.args = <<[kind |-> "spiral"]>>
  /\ eng.width = 3
  /\ eng.height = 2
  /\ eng.state = <<0, 1, 0, 0, 0, 0>>
  /\ worker.posted = <<[type |-> "state", id |-> 0,
                        state |-> <<0, 1, 0, 0, 0, 0>>, generation |-> 0]>>

\* C12: reset(newRule) leaves generation 0, the single-cell seed in row 0
\* and zeros elsewhere; the rule is the clamped newRule when one is given and
\* the rule the engine had when it is omitted; the worker's reset likewise.
C12_ResetReseeds ==
  [][last'.op = "reset" =>
       LET newRule == last'.args[1]
       IN  /\ SingleSeeded(eng')
           /\ getRule(eng') = IF newRule = Undefined THEN getRule(eng) ELSE Clamp(newRule[1])
           /\ TableValue(eng'.ruleLookup) = getRule(eng') % 256
           /\ worker.engine # Undefined =>
                /\ SingleSeeded(worker'.engine[1])
                /\ worker_getRule(worker'.engine[1]) =
                     IF newRule = Undefined THEN worker_getRule(worker.engine[1])
                     ELSE Clamp(newRule[1])
                /\ worker'.posted = <<stateResponse(worker'.engine[1], 0)>>]_vars

\* reset(300) after a step of rule 30 on a 3 x 2 engine: rule 255, seed 010.
C12_Witness ==
  /\ last.op = "reset"
  /\ last.args = <<Some(300)>>
  /\ eng.rule = 255
  /\ eng.width = 3
  /\ eng.height = 2
  /\ eng.currentGeneration = 0
  /\ eng.state = <<0, 1, 0, 0, 0, 0>>

\* C13: no engine has a width or a height below 1: an init with such a
\* dimension fails and is not answered with ready, so no worker holds one.
C13_NoDegenerateEngine ==
  \A k \in 1..Len(hosts) :
    hosts[k].engine # Undefined =>
      /\ hosts[k].engine[1].width >= 1
      /\ hosts[k].engine[1].height >= 1

\* C14: with g the generation before step(), the new row is computed from
\* row g mod height alone and written at row (g+1) mod height, the counter
\* becomes g+1, and every other row of the buffer is unchanged; with height
\* 1 the new row replaces the row it was computed from.
C14_StepFrame ==
  [][last'.op = "step" =>
       LET g == eng.currentGeneration
           h == eng.height
       IN  /\ eng'.currentGeneration = g + 1
           /\ RowOf(eng', (g + 1) % h) = RuleRow(eng.rule, RowOf(eng, g % h))
           /\ \A r \in 0..(h - 1) : r # (g + 1) % h => RowOf(eng', r) = RowOf(eng, r)
           /\ Len(eng'.state) = Len(eng.state)]_vars

\* The second step of rule 30 on a 3 x 3 engine: the row 000 is written at
\* row 2, and rows 0 and 1 are as the seed and the first step left them.
C14_Witness ==
  /\ last.op = "step"
  /\ eng.rule = 30
  /\ eng.width = 3
  /\ eng.height = 3
  /\ eng.currentGeneration = 2
  /\ eng.state = <<0, 1, 0, 1, 1, 1, 0, 0, 0>>

\* C15: with n the generation counter, row (k mod height) of the buffer is
\* the row of generation k for every k from max(0, n - height + 1) to n: the
\* buffer holds the last height generations, and once n >= height the seed
\* is no longer among them.
C15_RingOfGenerations ==
  LET n == eng.currentGeneration
      h == eng.height
  IN  /\ Len(rows) = n + 1
      /\ \A k \in Max(0, n - h + 1)..n : RowOf(eng, k % h) = rows[k + 1]

\* Three steps from the seed 100 on a 3 x 2 engine: the buffer holds
\* generations 2 and 3, and the seed is in neither row.
C15_Witness ==
  /\ eng.width = 3
  /\ eng.height = 2
  /\ eng.currentGeneration = 3
  /\ Len(rows) = 4
  /\ rows[1] = <<1, 0, 0>>
  /\ RowOf(eng, 0) = rows[3]
  /\ RowOf(eng, 1) = rows[4]
  /\ RowOf(eng, 0) # rows[1]
  /\ RowOf(eng, 1) # rows[1]

\* The methods of the manager that send a request and are not init.
RequestOps == {"step", "setInitialCondition", "setRule", "reset", "getState"}

\* An init of the log has resolved and no terminate() was called after it.
InitResolved(log) ==
  \E i \in 1..Len(log) :
    /\ log[i].op = "init"
    /\ log[i].result.state = "fulfilled"
    /\ \A j \in (i + 1)..Len(log) : log[j].op # "terminate"

\* C16: step, setInitialCondition, setRule, reset or getState called before
\* an init has resolved, or after terminate(), returns a rejected promise,
\* posts no message to a worker and registers no pending entry.
C16_NotInitializedRejects ==
  [][(last'.op \in RequestOps /\ ~InitResolved(calls)) =>
       /\ Len(calls') = Len(calls) + 1
       /\ calls'[Len(calls')].op = last'.op
       /\ calls'[Len(calls')].result.state = "rejected"
       /\ calls'[Len(calls')].id = Undefined
       /\ \A i \in 1..Len(calls) : calls'[i] = calls[i]
       /\ hosts' = hosts
       /\ mgr' = mgr
       /\ timers' = timers]_vars

\* step() after an init that resolved and a terminate(): rejected, with no
\* id and no message.
C16_Witness ==
  /\ last.op = "step"
  /\ Len(calls) = 3
  /\ calls[1].op = "init"
  /\ calls[1].result.state = "fulfilled"
  /\ calls[2].op = "terminate"
  /\ calls[3].op = "step"
  /\ calls[3].id = Undefined
  /\ calls[3].result = Rejected("Worker not initialized. Call init() first.")
  /\ hosts[1].inbox = <<>>

\* C17: a response whose id is pending settles exactly the promise that was
\* registered under that id, resolving it with the response, or rejecting it
\* with the response's message when its type is error; the entry is removed
\* and every other call and pending entry is as before.
C17_ResponseSettlesItsCall ==
  [][last'.op = "message" =>
       LET data == Head(hosts[last'.args[1]].outbox)
       IN  data.id \in DOMAIN mgr.messageHandlers =>
             LET call == mgr.messageHandlers[data.id]
             IN  /\ calls[call].id = Some(data.id)
                 /\ calls[call].sent.state = "pending"
                 /\ calls'[call].sent =
                      IF data.type = "error" THEN Rejected(data.message)
                      ELSE Fulfilled(Some(data))
                 /\ calls'[call].settles = 1
                 /\ mgr'.messageHandlers = MapDelete(mgr.messageHandlers, data.id)
                 /\ \A other \in 1..Len(calls) : other # call => calls'[other] = calls[other]]_vars

\* Two step() calls are pending under the ids 1 and 2 and the response with
\* id 1 has arrived: the first is resolved with it, the second still waits.
C17_Witness ==
  /\ last.op = "message"
  /\ Len(calls) = 3
  /\ calls[2].op = "step"
  /\ calls[2].sent.state = "fulfilled"
  /\ calls[2].sent.value[1].id = 1
  /\ calls[3].op = "step"
  /\ calls[3].sent.state = "pending"
  /\ DOMAIN mgr.messageHandlers = {2}

\* C18: the ids of one manager grow with every request and are never used
\* twice, whatever timeouts, worker errors, terminate() and later init()
\* calls come between; a pending entry is that of the one call with its id.
C18_IdsFresh ==
  /\ \A i, j \in 1..Len(calls) :
       (i < j /\ calls[i].id # Undefined /\ calls[j].id # Undefined) =>
         calls[i].id[1] < calls[j].id[1]
  /\ \A i \in 1..Len(calls) : calls[i].id # Undefined => calls[i].id[1] < mgr.nextMessageId
  /\ \A id \in DOMAIN mgr.messageHandlers : calls[mgr.messageHandlers[id]].id = Some(id)

\* init, terminate, init: the second init has the id 1, not the id 0 again.
C18_Witness ==
  /\ Len(calls) = 3
  /\ calls[1].op = "init"
  /\ calls[1].id = Some(0)
  /\ calls[2].op = "terminate"
  /\ calls[3].op = "init"
  /\ calls[3].id = Some(1)
  /\ mgr.nextMessageId = 2

\* C19: a response whose id is not pending is dropped: no promise is
\* settled, and the pending entries, the cached generation and the
\* initialized flag are as before.
C19_UnknownIdDropped ==
  [][last'.op = "message" =>
       LET data == Head(hosts[last'.args[1]].outbox)
       IN  data.id \notin DOMAIN mgr.messageHandlers =>
             /\ calls' = calls
             /\ mgr' = mgr]_vars

\* The ready response of an init arrives after the timeout of that init has
\* rejected it: the call stays rejected and the manager uninitialized.
C19_Witness ==
  /\ last.op = "message"
  /\ Len(calls) = 1
  /\ calls[1].op = "init"
  /\ calls[1].result = Rejected("Worker timeout: No response for message type 'init'")
  /\ calls[1].settles = 1
  /\ hosts[1].engine # Undefined
  /\ hosts[1].outbox = <<>>
  /\ ~isReady(mgr)

\* C20: when the timeout of a request fires and the request is still
\* pending, its promise is rejected with the worker-timeout error and its
\* id leaves the pending entries; every other pending entry and every other
\* call is as before.
C20_TimeoutRejectsItsCall ==
  [][last'.op = "timeout" =>
       LET timer == Head(timers)
       IN  IF timer.id \in DOMAIN mgr.messageHandlers
           THEN LET call == mgr.messageHandlers[timer.id]
                    error == Rejected("Worker timeout: No response for message type '"
                                        \o calls[call].op \o "'")
                IN  /\ calls[call].id = Some(timer.id)
                    /\ calls'[call].sent = error
                    /\ calls'[call].result = error
                    /\ mgr'.messageHandlers = MapDelete(mgr.messageHandlers, timer.id)
                    /\ \A other \in 1..Len(calls) :
                         other # call => calls'[other] = calls[other]
           ELSE calls' = calls /\ mgr' = mgr]_vars

\* Two step() calls wait for a worker that does not answer; the timeout of
\* the first has fired: it is rejected, the second is still pending.
C20_Witness ==
  /\ last.op = "timeout"
  /\ Len(calls) = 3
  /\ calls[2].result = Rejected("Worker timeout: No response for message type 'step'")
  /\ calls[2].id = Some(1)
  /\ calls[3].sent = Pending
  /\ DOMAIN mgr.messageHandlers = {2}

\* C21: terminate() rejects every request that is pending with "Worker
\* terminated", leaves no pending entry, stops the worker the manager holds,
\* forgets it and makes isReady() false; the calls that were settled are as
\* before, and a promise that was rejected is never resolved afterwards.
C21_TerminateRejectsAll ==
  [][/\ last'.op = "terminate" =>
          /\ mgr'.messageHandlers = <<>>
          /\ mgr'.worker = Undefined
          /\ ~isReady(mgr')
          /\ mgr.worker # Undefined =>
               /\ ~hosts'[mgr.worker[1]].live
               /\ hosts'[mgr.worker[1]].inbox = <<>>
               /\ hosts'[mgr.worker[1]].outbox = <<>>
          /\ \A c \in 1..Len(calls) :
               IF calls[c].sent.state = "pending"
               THEN /\ c \in {mgr.messageHandlers[id] : id \in DOMAIN mgr.messageHandlers}
                    /\ calls'[c].sent = Rejected("Worker terminated")
                    /\ calls'[c].result = Rejected("Worker terminated")
                    /\ calls'[c].settles = 1
               ELSE calls'[c] = calls[c]
     /\ \A c \in 1..Len(calls) :
          calls[c].result.state = "rejected" => calls'[c].result = calls[c].result]_vars

\* terminate() while two init() calls wait for their workers: both are
\* rejected and nothing is pending.
C21_Witness ==
  /\ last.op = "terminate"
  /\ Len(calls) = 3
  /\ calls[1].op = "init"
  /\ calls[1].result = Rejected("Worker terminated")
  /\ calls[2].op = "init"
  /\ calls[2].result = Rejected("Worker terminated")
  /\ calls[3].op = "terminate"
  /\ mgr.messageHandlers = <<>>
  /\ mgr.worker = Undefined
  /\ ~isReady(mgr)
  /\ ~hosts[2].live

\* The types the listener dispatches to a handler.
KnownTypes == {"init", "step", "setInitialCondition", "setRule", "reset", "getState"}

\* C22: a message of a type the listener does not know is answered with one
\* error response that carries the id of the message and names the type; the
\* worker's engine (rule, generation, buffer and all) is as before, absent
\* if it was absent, so the requests that follow are served as if the
\* message had not come.
C22_UnknownTypeAnswered ==
  [][(last'.op = "message" /\ last'.args[1].type \notin KnownTypes) =>
       /\ worker'.engine = worker.engine
       /\ worker'.posted = <<[type |-> "error", id |-> last'.args[1].id,
                              message |-> "Unknown message type: " \o last'.args[1].type]>>]_vars

\* A message of type clone with the id 7 reaches a worker whose 3 x 2 engine
\* has made one step of rule 30: the error names the id, the engine stays.
C22_Witness ==
  /\ last.op = "message"
  /\ last.args[1].type = "clone"
  /\ worker.posted = <<[type |-> "error", id |-> 7, message |-> "Unknown message type: clone"]>>
  /\ worker.engine # Undefined
  /\ worker.engine[1].currentGeneration = 1
  /\ worker.engine[1].state = <<0, 1, 0, 1, 1, 1>>

\* C23: every message the worker receives, of any type, before or after an
\* init, with its parameters given or left out, and whether or not the
\* handler throws, is answered with exactly one response, which carries the
\* id of the message.
C23_ExactlyOneResponse ==
  [][last'.op = "message" =>
       /\ Len(worker'.posted) = 1
       /\ worker'.posted[1].id = last'.args[1].id
       /\ worker'.posted[1].type \in {"ready", "state", "ruleChanged", "error"}]_vars

\* The init that makes the constructor throw: one error response, with the
\* id 7 of the init, and no engine.
C23_Witness ==
  /\ last.op = "message"
  /\ last.args[1].type = "init"
  /\ last.args[1].width = Some(-1)
  /\ worker.posted = <<[type |-> "error", id |-> 7,
                        message |-> "Worker error: Invalid typed array length: -1"]>>
  /\ worker.engine = Undefined

\* The worker a request of the log was posted to: init makes a new worker
\* and every request goes to the newest one.
HostOf(log, c) == Cardinality({i \in 1..c : log[i].op = "init"})

\* The ids of the messages of a queue, in its order.
IdsOf(queue) == [i \in 1..Len(queue) |-> queue[i].id]

Increasing(ids) == \A i, j \in 1..Len(ids) : i < j => ids[i] < ids[j]

\* The calls of the log that were posted to worker k, and those of them the
\* worker has handled.
PostedTo(log, k) == {c \in 1..Len(log) : log[c].id # Undefined /\ HostOf(log, c) = k}
HandledBy(log, k) ==
  {c \in PostedTo(log, k) : \A i \in 1..Len(hosts[k].inbox) : hosts[k].inbox[i].id # log[c].id[1]}

\* The calls that start the generations again from 0.
SeedOps == {"init", "setInitialCondition", "reset"}

\* The number of step() calls among the calls of S up to c that come after
\* the last call of S that seeds.
StepsSinceSeed(log, S, c) ==
  Cardinality({j \in S : /\ j <= c
                         /\ log[j].op = "step"
                         /\ \A i \in S : (j < i /\ i <= c) => log[i].op \notin SeedOps})

\* C24: the requests of a manager reach a worker, are handled by it and are
\* answered to the manager in the order they were issued, also when they
\* are issued without waiting: the responses not yet dispatched and the
\* messages not yet handled of a worker are in the order of their ids, a
\* request is not answered before an earlier one; a step() that resolves
\* carries the generation that counts the step() calls issued since the
\* last seeding, and the worker's engine is at the count of those handled.
C24_IssuanceOrder ==
  \A k \in 1..Len(hosts) :
    /\ Increasing(IdsOf(hosts[k].outbox) \o IdsOf(hosts[k].inbox))
    /\ hosts[k].live =>
         /\ \A c, d \in PostedTo(calls, k) :
              (c < d /\ \E i \in 1..Len(hosts[k].outbox) : hosts[k].outbox[i].id = calls[c].id[1])
                => \E i \in 1..Len(hosts[k].outbox) : hosts[k].outbox[i].id = calls[d].id[1]
                   \/ d \notin HandledBy(calls, k)
         /\ \A c, d \in PostedTo(calls, k) :
              (c < d /\ c \notin HandledBy(calls, k)) => d \notin HandledBy(calls, k)
         /\ hosts[k].engine # Undefined =>
              \A c \in HandledBy(calls, k) :
                (\A d \in HandledBy(calls, k) : d <= c) =>
                  hosts[k].engine[1].currentGeneration =
                    StepsSinceSeed(calls, HandledBy(calls, k), c)
    /\ \A c \in PostedTo(calls, k) :
         (calls[c].op = "step" /\ calls[c].result.state = "fulfilled") =>
           calls[c].result.value[1].generation = StepsSinceSeed(calls, PostedTo(calls, k), c)

\* Two step() calls were issued while none had resolved, from generation 0:
\* the worker has handled both, and its responses wait in the order of the
\* calls, with the generations 1 and 2.
C24_Witness ==
  /\ Len(calls) = 3
  /\ calls[1].op = "init"
  /\ calls[1].result.state = "fulfilled"
  /\ calls[2].op = "step"
  /\ calls[2].sent = Pending
  /\ calls[3].op = "step"
  /\ calls[3].sent = Pending
  /\ Len(hosts[1].outbox) = 2
  /\ hosts[1].outbox[1].id = 1
  /\ hosts[1].outbox[1].generation = 1
  /\ hosts[1].outbox[2].id = 2
  /\ hosts[1].outbox[2].generation = 2
  /\ hosts[1].engine[1].currentGeneration = 2

\* C25: the worker's engine and a bare engine that were built with the same
\* rule and dimensions are equal, and stay equal under every step,
\* setRule, reset and seeding with a given pattern made on both: the state
\* and generation the worker answers a step, a reset or a seeding with are
\* cell for cell those of the bare engine, and the rule it answers setRule
\* with is the bare engine's.
C25_NoDrift ==
  /\ worker.engine # Undefined => worker.engine[1] = eng
  /\ [][(/\ last'.op \in {"step", "setRule", "reset", "setInitialCondition"}
         /\ worker.engine # Undefined
         /\ worker.engine[1] = eng) =>
          /\ worker'.engine[1] = eng'
          /\ Len(worker'.posted) = 1
          /\ IF last'.op = "setRule"
             THEN worker'.posted[1].rule = getRule(eng')
             ELSE /\ worker'.posted[1].state = getState(eng')
                  /\ worker'.posted[1].generation = getGeneration(eng')]_vars

\* Two steps of rule 30 on 3 x 2 cells, on both sides: the worker's answer
\* to the second is the bare engine's buffer, generation 2.
C25_Witness ==
  /\ last.op = "step"
  /\ eng.rule = 30
  /\ eng.currentGeneration = 2
  /\ eng.state = <<0, 0, 0, 1, 1, 1>>
  /\ worker.engine = Some(eng)
  /\ worker.posted = <<[type |-> "state", id |-> 0,
                        state |-> <<0, 0, 0, 1, 1, 1>>, generation |-> 2]>>

\* C26: a step request for n >= 0 steps makes the worker execute exactly n
\* steps: the generation it answers with, and its engine's, is the
\* generation before plus n, and for n = 0 the engine is as before.
C26_StepCountExact ==
  [][(/\ last'.op = "message"
      /\ last'.args[1].type = "step"
      /\ last'.args[1].steps # Undefined
      /\ worker.engine # Undefined) =>
       LET n == last'.args[1].steps[1]
       IN  /\ worker'.engine[1].currentGeneration = worker.engine[1].currentGeneration + n
           /\ worker'.posted[1].generation = worker.engine[1].currentGeneration + n
           /\ n = 0 => worker'.engine = worker.engine]_vars

\* C27: the state a response delivers is a copy on a buffer of its own.
\* After the worker has posted a state, transferring the buffer of the copy,
\* its engine still has its whole buffer, cell for cell what was posted, and
\* getState has changed nothing of the engine; a write of the receiver into
\* the state it holds changes the receiver's copy and not the worker's
\* engine, and the responses that follow are again the engine's own cells;
\* a step is computed from the buffer the engine had.
C27_NoAliasing ==
  [][/\ (/\ last'.op = "message"
         /\ worker'.engine # Undefined
         /\ worker'.posted[1].type = "state") =>
          /\ Len(worker'.engine[1].state) = worker'.engine[1].width * worker'.engine[1].height
          /\ worker'.posted[1].state = worker'.engine[1].state
          /\ last'.args[1].type = "getState" => worker'.engine = worker.engine
          /\ (last'.args[1].type = "step" /\ last'.args[1].steps = Some(1)) =>
               worker'.engine[1].state = worker_step(worker.engine[1]).state
     /\ last'.op = "clientWrite" =>
          /\ worker'.engine = worker.engine
          /\ worker'.posted[1].state # worker'.engine[1].state]_vars

\* The receiver of the state of a fresh 3 x 2 engine has set cell 0 of its
\* copy: the worker's buffer still holds the seed alone.
C27_Witness ==
  /\ last.op = "clientWrite"
  /\ worker.posted[1].state = <<1, 1, 0, 0, 0, 0>>
  /\ worker.engine # Undefined
  /\ worker.engine[1].state = <<0, 1, 0, 0, 0, 0>>

\* The workers of the manager that have not been terminated.
LiveHosts == {k \in 1..Len(hosts) : hosts[k].live}

\* C28: a manager has at most one running worker at any moment, the one it
\* holds: terminate() leaves none, and an init() after terminate() or after
\* another init() leaves no earlier worker running beside the new one.
C28_OneLiveHost ==
  /\ Cardinality(LiveHosts) <= 1
  /\ \A k \in LiveHosts : mgr.worker = Some(k)

\* C29: two engines constructed apart with the same rule, width and height
\* and given the same initial row (the single cell or the same explicit
\* row) have the same rule, the same generation counter and the same buffer
\* after every equal sequence of step(), generate(n) and setRule(r) calls,
\* whatever the second engine held before it was given its initial row.
C29_Deterministic ==
  /\ Len(twin) = 2
  /\ getRule(twin[1]) = getRule(eng)
  /\ getGeneration(twin[1]) = getGeneration(eng)
  /\ getState(twin[1]) = getState(eng)

\* Both engines were built with rule 90 on 3 x 2 cells; the second was
\* seeded at random and stepped twice before both were seeded with the row
\* 1 and stepped twice: both hold the row 011 twice.
C29_Witness ==
  /\ Len(twin) = 2
  /\ twin[2].steps = 2
  /\ eng.rule = 90
  /\ eng.currentGeneration = 2
  /\ eng.state = <<0, 1, 1, 0, 1, 1>>
  /\ twin[1].state = <<0, 1, 1, 0, 1, 1>>
  /\ twin[1].rule = 90

\* The rule table gives mirrored neighbourhoods the same cell: 001 as 100,
\* and 011 as 110.
Symmetric(table) == table[2] = table[5] /\ table[4] = table[7]

Palindrome(row) == \A x \in 1..Len(row) : row[x] = row[Len(row) + 1 - x]

\* C30: on an engine of odd width and of a rule that treats left and right
\* alike, started from the single centre cell, the current row after a
\* step(), and after every further step(), reads the same from both ends.
C30_SeedSymmetry ==
  [][(last'.op = "step" /\ Symmetric(eng.ruleLookup) /\ eng.width % 2 = 1) =>
       /\ Palindrome(CurrentRowOf(eng))
       /\ Palindrome(CurrentRowOf(eng'))
       /\ Palindrome(getRow(eng', eng'.currentGeneration % eng'.height))]_vars

\* Rule 90 on 5 cells, three steps from the seed: the cells have met around
\* the ring and the row is 11011.
C30_Witness ==
  /\ last.op = "step"
  /\ eng.rule = 90
  /\ eng.width = 5
  /\ eng.height = 1
  /\ eng.currentGeneration = 3
  /\ eng.state = <<1, 1, 0, 1, 1>>

\* C31: a rule-30 engine of 7 cells has the row 0001000 at generation 0 and
\* the row 0011100 after one step(); a rule-90 engine of 9 cells has the row
\* 000010000 and, after one step(), 000101000.  The new row is the current
\* row, it is read back by getRow, and each of its cells is what computeRule
\* gives for the three cells above it.
C31_ConcreteRows ==
  [][(last'.op = "step" /\ eng.currentGeneration = 0) =>
       LET old == CurrentRowOf(eng)
           new == CurrentRowOf(eng')
           w == eng.width
       IN  /\ (eng.rule = 30 /\ w = 7) =>
                /\ old = <<0, 0, 0, 1, 0, 0, 0>>
                /\ new = <<0, 0, 1, 1, 1, 0, 0>>
           /\ (eng.rule = 90 /\ w = 9) =>
                /\ old = <<0, 0, 0, 0, 1, 0, 0, 0, 0>>
                /\ new = <<0, 0, 0, 1, 0, 1, 0, 0, 0>>
           /\ new = getRow(eng', 1 % eng.height)
           /\ eng.height > 1 => RowOf(eng', 0) = old
           /\ \A x \in 0..(w - 1) :
                new[x + 1] = computeRule(old[LeftOf(x, w) + 1], old[x + 1],
                                         old[RightOf(x, w) + 1], eng.rule)]_vars

\* The rule-30 engine of 7 cells and two rows after its first step: the seed
\* row and the row 0011100 under it.
C31_Witness ==
  /\ last.op = "step"
  /\ eng.rule = 30
  /\ eng.width = 7
  /\ eng.height = 2
  /\ eng.currentGeneration = 1
  /\ eng.state = <<0, 0, 0, 1, 0, 0, 0, 0, 0, 1, 1, 1, 0, 0>>

\* The rule-90 engine of 9 cells after its first step: the row 000101000.
C31_WitnessRule90 ==
  /\ last.op = "step"
  /\ eng.rule = 90
  /\ eng.width = 9
  /\ eng.height = 1
  /\ eng.currentGeneration = 1
  /\ eng.state = <<0, 0, 0, 1, 0, 1, 0, 0, 0>>

\* The calls whose request is registered as pending.
PendingCalls(m) == {m.messageHandlers[id] : id \in DOMAIN m.messageHandlers}

\* C32: the promise of a call is settled once.  Whatever comes first of its
\* response, its timeout, a worker error and terminate() settles it and
\* removes its entry; resolve or reject of a call is never invoked a second
\* time, and a settled promise keeps its outcome under everything that
\* follows.  A timeout that fires for a request that is no longer pending
\* changes nothing, and a timeout touches no call and no entry but its own.
C32_SettledOnce ==
  [][/\ \A c \in 1..Len(calls) :
          /\ calls'[c].settles <= 1
          /\ calls[c].sent.state \in {"fulfilled", "rejected"} =>
               /\ calls'[c].sent = calls[c].sent
               /\ calls'[c].result = calls[c].result
               /\ calls'[c].settles = calls[c].settles
          /\ (calls[c].sent.state = "pending") <=> (c \in PendingCalls(mgr))
          /\ calls[c].sent.state = "pending" => calls[c].settles = 0
     /\ last'.op = "timeout" =>
          LET timer == Head(timers)
          IN  /\ calls[timer.call].id = Some(timer.id)
              /\ \A c \in 1..Len(calls) : c # timer.call => calls'[c] = calls[c]
              /\ \A id \in DOMAIN mgr.messageHandlers :
                   id # timer.id => /\ id \in DOMAIN mgr'.messageHandlers
                                    /\ mgr'.messageHandlers[id] = mgr.messageHandlers[id]
              /\ calls[timer.call].sent.state # "pending" =>
                   /\ calls' = calls
                   /\ mgr' = mgr
                   /\ hosts' = hosts]_vars

\* init and step were both answered, and then the timeouts of both fired:
\* each promise is as its response left it, settled once.
C32_Witness ==
  /\ last.op = "timeout"
  /\ timers = <<>>
  /\ Len(calls) = 2
  /\ calls[1].op = "init"
  /\ calls[1].result.state = "fulfilled"
  /\ calls[1].settles = 1
  /\ calls[2].op = "step"
  /\ calls[2].result.state = "fulfilled"
  /\ calls[2].result.value[1].generation = 1
  /\ calls[2].settles = 1
  /\ mgr.messageHandlers = <<>>

\* The c-th call has been made and its request is pending; it has been made
\* and its promise is settled, its entry removed.
Waiting(c) == IF Len(calls) >= c THEN calls[c].sent.state = "pending" ELSE FALSE
Settled(c) ==
  IF Len(calls) >= c
  THEN /\ calls[c].sent.state \in {"fulfilled", "rejected"}
       /\ calls[c].result.state \in {"fulfilled", "rejected"}
       /\ c \notin PendingCalls(mgr)
  ELSE FALSE

\* C33: no caller waits forever.  Provided the timeouts that were set fire,
\* every call whose request is pending is settled in the end and its entry
\* removed, by its response, its timeout, a worker error or terminate(),
\* also when the worker never handles the message or has failed to start.
C33_NoCallerWaitsForever ==
  \A c \in 1..MaxCalls : Waiting(c) ~> Settled(c)

\* The worker never handled the init it was sent: the timeout rejected the
\* call while the message was still queued.
C33_Witness ==
  /\ last.op = "timeout"
  /\ Len(calls) = 1
  /\ calls[1].op = "init"
  /\ calls[1].result = Rejected("Worker timeout: No response for message type 'init'")
  /\ hosts[1].live
  /\ Len(hosts[1].inbox) = 1
  /\ mgr.messageHandlers = <<>>

\* The number of steps the worker computes for a step message.
StepsRun(data) == IF data.steps = Undefined \/ data.steps = Some(0) THEN 1 ELSE data.steps[1]

\* C34: a state response is a snapshot of the worker's engine as the request
\* left it: its state is the engine's whole buffer, width * height cells,
\* and its generation is the engine's counter, both read after the request
\* was carried out.  After a step request the buffer is that of the engine
\* stepped as often as asked from the engine before, and its current row is
\* whole: every cell of it is the rule's cell for the row of the generation
\* before; after a reset or a seeding the generation is 0.
C34_ConsistentSnapshot ==
  [][(/\ last'.op = "message"
      /\ Len(worker'.posted) = 1
      /\ worker'.posted[1].type = "state") =>
       LET data == last'.args[1]
           response == worker'.posted[1]
           before == worker.engine[1]
           after == worker'.engine[1]
       IN  /\ worker.engine # Undefined
           /\ data.type \in {"step", "setInitialCondition", "reset", "getState"}
           /\ response.state = after.state
           /\ Len(response.state) = after.width * after.height
           /\ response.generation = after.currentGeneration
           /\ data.type = "getState" => after = before
           /\ data.type \in {"setInitialCondition", "reset"} => response.generation = 0
           /\ data.type = "step" =>
                /\ response.generation = before.currentGeneration + StepsRun(data)
                /\ response.state = worker_generate(before, StepsRun(data)).state
                /\ LET r == response.generation % after.height
                       row == SubSeq(response.state, r * after.width + 1, (r + 1) * after.width)
                   IN  StepsRun(data) = 1 =>
                         row = RuleRow(before.rule, CurrentRowOf(before))]_vars

\* A request for two steps of rule 30 on 3 x 2 cells from the seed: the
\* response pairs generation 2 with the buffer that holds the rows of the
\* generations 2 and 1.
C34_Witness ==
  /\ last.op = "message"
  /\ last.args[1].type = "step"
  /\ last.args[1].steps = Some(2)
  /\ worker.posted = <<[type |-> "state", id |-> 3,
                        state |-> <<0, 0, 0, 1, 1, 1>>, generation |-> 2]>>
  /\ worker.engine[1].currentGeneration = 2
  /\ worker.engine[1].state = <<0, 0, 0, 1, 1, 1>>

\* The call of the log that was given the id.
CallOfId(log, id) == CHOOSE c \in 1..Len(log) : log[c].id = Some(id)

\* The requests that change the engine of the worker.
ChangingOps == {"step", "reset", "setInitialCondition", "setRule"}

\* C35: a request that was rejected with the worker-timeout error is
\* cancelled: when the worker comes to handle the message of such a step,
\* reset, setInitialCondition or setRule, its engine (generation counter,
\* buffer and rule) stays as it is.
C35_TimeoutCancels ==
  [][last'.op = "handle" =>
       LET k == last'.args[1]
           data == Head(hosts[k].inbox)
           call == calls[CallOfId(calls, data.id)]
       IN  (/\ call.op \in ChangingOps
            /\ call.result = Rejected("Worker timeout: No response for message type '"
                                        \o call.op \o "'")) =>
             hosts'[k].engine = hosts[k].engine]_vars

\* The manager is initialized and nothing is under way: no request is
\* pending, and the worker it holds has no message to handle and no response
\* to deliver.
Quiescent ==
  /\ isReady(mgr)
  /\ mgr.messageHandlers = <<>>
  /\ mgr.worker # Undefined
  /\ hosts[mgr.worker[1]].inbox = <<>>
  /\ hosts[mgr.worker[1]].outbox = <<>>
  /\ hosts[mgr.worker[1]].engine # Undefined

\* C36: whenever the manager is initialized and nothing is under way, the
\* generation getGeneration() gives from the manager's cache is the
\* generation counter of the engine of the worker the manager holds.
C36_CachedGeneration ==
  Quiescent =>
    manager_getGeneration(mgr) = worker_getGeneration(hosts[mgr.worker[1]].engine[1])

\* C37: isReady() is true only while the worker the manager holds is
\* running and has its engine: the manager holds a worker, that worker has
\* not been terminated, it holds an engine built by an init or the init
\* sent to it is the next message it will handle, and an init has resolved
\* with no terminate() after it.
C37_ReadyMeansLiveHost ==
  isReady(mgr) =>
    /\ mgr.worker # Undefined
    /\ hosts[mgr.worker[1]].live
    /\ \/ hosts[mgr.worker[1]].engine # Undefined
       \/ /\ hosts[mgr.worker[1]].inbox # <<>>
          /\ Head(hosts[mgr.worker[1]].inbox).type = "init"
    /\ InitResolved(calls)

\* The methods of the manager that send a request.
SendingOps == RequestOps \cup {"init"}

\* C38: an error event of a worker rejects every request that is pending
\* with the worker error and leaves no pending entry; the settled calls, the
\* worker the manager holds, its flag and its next id are as before.  A
\* request made after an error event is registered like any other: it gets
\* the next id, its entry is added to those pending, its message is queued
\* to the worker the manager holds and its timeout is set, and it is pending.
C38_ErrorRejectsPending ==
  [][/\ last'.op = "error" =>
          /\ mgr' = [mgr EXCEPT !.messageHandlers = <<>>]
          /\ timers' = timers
          /\ \A c \in 1..Len(calls) :
               IF c \in PendingCalls(mgr)
               THEN /\ calls[c].sent = Pending
                    /\ calls'[c].sent = Rejected("Worker error: Unknown error")
                    /\ calls'[c].result = Rejected("Worker error: Unknown error")
                    /\ calls'[c].settles = 1
               ELSE calls'[c] = calls[c]
     /\ (/\ last'.op \in SendingOps
         /\ \E k \in 1..Len(hosts) : hosts[k].script = "failed"
         /\ calls'[Len(calls')].id # Undefined) =>
          LET c == Len(calls')
              id == mgr.nextMessageId
              k == mgr'.worker[1]
          IN  /\ c = Len(calls) + 1
              /\ calls'[c].id = Some(id)
              /\ calls'[c].sent = Pending
              /\ calls'[c].result = Pending
              /\ mgr'.messageHandlers = MapSet(mgr.messageHandlers, id, c)
              /\ mgr'.nextMessageId = id + 1
              /\ hosts'[k].inbox # <<>>
              /\ hosts'[k].inbox[Len(hosts'[k].inbox)].id = id
              /\ timers' = Append(timers, [id |-> id, type |-> last'.op, call |-> c])]_vars

\* Two init() calls were pending when the first worker failed to start: both
\* are rejected with the worker error; the init() made afterwards is pending
\* under the id 2, the only entry.
C38_Witness ==
  /\ last.op = "init"
  /\ Len(calls) = 3
  /\ calls[1].result = Rejected("Worker error: Unknown error")
  /\ calls[2].result = Rejected("Worker error: Unknown error")
  /\ calls[3].op = "init"
  /\ calls[3].id = Some(2)
  /\ calls[3].sent = Pending
  /\ DOMAIN mgr.messageHandlers = {2}
  /\ hosts[1].script = "failed"
  /\ Len(hosts[3].inbox) = 1

\* C39: restore(c) of an object c that clone() returned earlier on the same
\* engine puts the engine back as it was at the clone(): rule, lookup table,
\* generation counter and the whole buffer, whatever step, setRule, reset and
\* setInitialCondition calls were made in between; none of those calls, nor
\* the restore, alters c; and the steps made after the restore give the
\* rows the steps from the original engine give.
C39_CloneRestore ==
  [][/\ (snap # <<>> /\ last'.op # "clone") =>
          /\ snap'[1].c = snap[1].c
          /\ snap[1].c = clone(snap[1].of)
     /\ last'.op = "restore" =>
          LET original == snap[1].of
          IN  /\ getRule(eng') = getRule(original)
              /\ eng'.ruleLookup = original.ruleLookup
              /\ getGeneration(eng') = getGeneration(original)
              /\ getState(eng') = getState(original)
              /\ eng'.width = original.width /\ eng'.height = original.height
              /\ step(eng').state = step(original).state
              /\ CurrentRowOf(step(eng')) = CurrentRowOf(step(original))
              /\ generate(eng', 2).state = generate(original, 2).state]_vars

\* A clone of the rule-30 engine of 3 x 2 cells was taken after its first
\* step; the engine was then given rule 300, seeded anew and stepped, and
\* restored: it is the engine of the clone again.
C39_Witness ==
  /\ last.op = "restore"
  /\ snap # <<>>
  /\ snap[1].of.rule = 30
  /\ snap[1].of.currentGeneration = 1
  /\ snap[1].c.state = <<0, 1, 0, 1, 1, 1>>
  /\ eng.rule = 30
  /\ eng.ruleLookup = <<0, 1, 1, 1, 1, 0, 0, 0>>
  /\ eng.currentGeneration = 1
  /\ eng.state = <<0, 1, 0, 1, 1, 1>>
  /\ eng.nextRow # snap[1].of.nextRow

\* C40: the edits of the rule field are debounced at 500 ms.  onRuleChange
\* is not invoked by the debounce while the input events keep coming less
\* than 500 ms apart: when it is invoked so, the last input event is at
\* least 500 ms past.  An edit that is complete, its input events followed
\* by the change event, has invoked onRuleChange at most once, and with the
\* last valid value that was entered.
C40_RuleDebounced ==
  [][/\ (last'.op = "debounced" /\ Len(panel'.invoked) > Len(panel.invoked)) =>
          panel.now - panel.lastInput[1] >= RuleDebounce
     /\ \A e \in 1..(panel'.edit - 1) :
          /\ Cardinality({i \in 1..Len(panel'.invoked) : panel'.invoked[i].edit = e}) <= 1
          /\ \A i \in 1..Len(panel'.invoked) :
               panel'.invoked[i].edit = e => Some(panel'.invoked[i].value) = panel'.entered[e]]_vars

TypeOK ==
  /\ eng.width \in Widths
  /\ eng.height \in Heights
  /\ Len(eng.state) = eng.width * eng.height
====
